---- MODULE Spec2Model ----
(***************************************************************************)
(* A model of the Web-browsing MCP server: the recent-tab tracker and the  *)
(* action executors of toolHelpers (src/unnamed/part_001), the dispatcher  *)
(* handleToolCall (src/src/tools/toolHandlers.ts), the catalog toolsList   *)
(* (src/unnamed/part_000) and the POST /mcp route (src/unnamed/part_002).  *)
(*                                                                         *)
(* Every record is written with its fields in the order in which their     *)
(* names first occur in this module, which is the order TLC keeps records  *)
(* in: no record is then reordered while several workers read it.          *)
(***************************************************************************)
EXTENDS Integers, Sequences, FiniteSets, TLC

VARIABLES
  recentTabOrder,  \* part_001:4   the module-level list of Page handles
  calls,           \* number of updateRecentTabOrder calls made directly (SpecOrder)
  seen,            \* highest handle ever passed to updateRecentTabOrder (SpecOrder)
  lastRecorded,    \* the handle passed to the most recent updateRecentTabOrder call
  contexts,        \* browser.contexts(), each entry its context.pages()
  url,             \* page.url() of every handle
  closed,          \* page.isClosed() of every handle
  nextPage,        \* the handle the engine gives to the next page it creates
  httpOnlySession, \* part_002:11  "null", "uninitialized" or "initialized"
  request,         \* the body of the last POST /mcp request
  response,        \* the HTTP response sent for it
  run,             \* what the last executor that ran did
  engine           \* how the engine behaved during a direct executor call

trackerVars == <<recentTabOrder, calls, seen, lastRecorded>>
browserVars == <<contexts, url, closed, nextPage>>
serverVars  == <<httpOnlySession, request, response>>
vars == <<recentTabOrder, calls, seen, lastRecorded, contexts, url, closed,
          nextPage, httpOnlySession, request, response, run, engine>>

(***************************************************************************)
(* Bounds of the model.                                                    *)
(***************************************************************************)
NumTabs == 11    \* handles available to direct updateRecentTabOrder calls
MaxCalls == 12   \* direct updateRecentTabOrder calls in one behaviour
MaxPages == 2    \* pages the engine creates in one behaviour
MaxContexts == 2 \* browser contexts the engine creates in one behaviour
MaxCount == 3    \* elements one selector matches
MaxSteps == 3    \* the largest steps option of go_back / go_forward
MaxHist == 3     \* history entries ahead of the page, every content
LongHist == 12   \* history entries ahead of the page, alternating content
MaxTabs == 3     \* tabs open in the browser the server attaches to
MaxPasses == 2   \* passes of a search whose findings the engine chooses
MaxRetry == 2    \* largest retryAttempts option of a search
MaxParas == 2    \* paragraphs of a page, every content
MaxText == 2     \* characters of one paragraph
MaxInflight == 2 \* requests being handled at the same time
MaxActs == 2     \* automation calls one executor awaits on its page
MaxAttempts == 3  \* maxAttempts given to waitForBrowserReady called directly
MaxReadyFrom == 7 \* the latest poll from which the debugging port answers
MaxButtons == 2  \* submit selectors of a search that resolve to an element

\* part_001:16  recentTabOrder.slice(0, 10)
RecentCapacity == 10

None == 0        \* null / no page

Min(a, b) == IF a < b THEN a ELSE b

(***************************************************************************)
(* part_001:7-22  updateRecentTabOrder(page)                               *)
(***************************************************************************)
UpdateEvictsNewest(order, page) ==
  LET filtered == SelectSeq(order, LAMBDA p : p # page)
  IN  IF Len(filtered) >= RecentCapacity THEN <<page>> \o Tail(filtered)
      ELSE <<page>> \o filtered

UpdateNoFilter(order, page) ==
  LET unshifted == <<page>> \o order
  IN  SubSeq(unshifted, 1, Min(Len(unshifted), RecentCapacity))

updateRecentTabOrder(order, page) ==
  LET filtered  == SelectSeq(order, LAMBDA p : p # page)      \* line 10
      unshifted == <<page>> \o filtered                        \* line 13
  IN  SubSeq(unshifted, 1, Min(Len(unshifted), RecentCapacity)) \* line 16

(***************************************************************************)
(* The browser as the helpers see it.  A world w is the record             *)
(*   [contexts, url, closed, nextPage, order]                              *)
(* of browser.contexts() with each context.pages(), page.url(),            *)
(* page.isClosed(), the engine's next handle, and recentTabOrder.          *)
(* context.pages() lists the open pages of a context in creation order; a  *)
(* page that closes leaves it and answers isClosed() = true from then on.  *)
(***************************************************************************)
Blank == "about:blank"
SiteA == "https://a.test/"
SiteB == "https://b.test/"
Urls  == {Blank, SiteA}

RECURSIVE Flatten(_)
Flatten(ctxs) == IF ctxs = <<>> THEN <<>> ELSE Head(ctxs) \o Flatten(Tail(ctxs))

Range(s) == {s[i] : i \in 1..Len(s)}

OpenPages(w) == {p \in Range(Flatten(w.contexts)) : ~w.closed[p]}

\* part_001:30 and 45   !page.isClosed() && page.url() !== 'about:blank'
IsUsable(w, p) == ~w.closed[p] /\ w.url[p] # Blank

\* index of the first usable page of a list, 0 when there is none
FirstUsable(w, s) ==
  IF \E i \in 1..Len(s) : IsUsable(w, s[i])
  THEN CHOOSE i \in 1..Len(s) :
         IsUsable(w, s[i]) /\ \A j \in 1..(i - 1) : ~IsUsable(w, s[j])
  ELSE 0

Record(w, p) == [w EXCEPT !.order = updateRecentTabOrder(@, p)]

(***************************************************************************)
(* part_001:25-64  getActivePage(browser).  The answer is                  *)
(*   [page, w, enumerated]: the page returned (None for null), the world   *)
(* after the call, and whether browser.contexts() was read.                *)
(***************************************************************************)
GetActivePageHeadOnly(w) ==
  LET all == Flatten(w.contexts)
      k   == FirstUsable(w, all)
  IN  IF w.order # <<>> /\ ~w.closed[Head(w.order)]
      THEN [page |-> Head(w.order), w |-> w, enumerated |-> FALSE]
      ELSE IF k # 0
      THEN [page |-> all[k], w |-> Record(w, all[k]), enumerated |-> TRUE]
      ELSE [page |-> None, w |-> w, enumerated |-> TRUE]

GetActivePageAlwaysScan(w) ==
  LET all == Flatten(w.contexts)
      k   == FirstUsable(w, all)
  IN  IF k # 0
      THEN [page |-> all[k], w |-> Record(w, all[k]), enumerated |-> TRUE]
      ELSE [page |-> None, w |-> w, enumerated |-> TRUE]

GetActivePagePrunes(w) ==
  LET i == FirstUsable(w, w.order)
  IN  IF i # 0
      THEN [page |-> w.order[i],
            w |-> [w EXCEPT !.order = SubSeq(@, i, Len(@))],
            enumerated |-> FALSE]
      ELSE GetActivePageAlwaysScan(w)

getActivePage(w) ==
  LET i   == FirstUsable(w, w.order)                         \* lines 27-37
      all == Flatten(w.contexts)                             \* lines 40-43
      k   == FirstUsable(w, all)
  IN  IF i # 0
      THEN [page |-> w.order[i], w |-> w, enumerated |-> FALSE]
      ELSE IF k # 0                                          \* lines 45-48
      THEN [page |-> all[k], w |-> Record(w, all[k]), enumerated |-> TRUE]
      ELSE IF /\ Len(w.contexts) > 0                         \* line 56
              /\ Len(w.contexts[1]) > 0
              /\ ~w.closed[w.contexts[1][1]]                 \* line 58
      THEN [page |-> w.contexts[1][1],
            w |-> Record(w, w.contexts[1][1]), enumerated |-> TRUE]
      ELSE [page |-> None, w |-> w, enumerated |-> TRUE]     \* line 63

\* browser.newContext()
NewContext(w) == [w EXCEPT !.contexts = Append(@, <<>>)]

\* context.newPage() in context c: the new page is open and at about:blank
NewPage(w, c) ==
  [w EXCEPT !.contexts[c] = Append(@, w.nextPage),
            !.url = @ @@ (w.nextPage :> Blank),
            !.closed = @ @@ (w.nextPage :> FALSE),
            !.nextPage = @ + 1]

\* the context whose pages() holds p, 0 when p is in none
ContextOf(w, p) ==
  IF \E c \in 1..Len(w.contexts) : p \in Range(w.contexts[c])
  THEN CHOOSE c \in 1..Len(w.contexts) : p \in Range(w.contexts[c])
  ELSE 0

\* what an executor hands back: a Result object, or an exception
Result(text, isError) == [text |-> text, isError |-> isError, kind |-> "result"]
Thrown(text) == [text |-> text, kind |-> "throw"]

\* the outcome of one executor: the world it leaves, what it returned and
\* the page it acted on (None when it had none)
Ran(w, out, page) == [page |-> page, w |-> w, out |-> out]

(***************************************************************************)
(* The executors.  Each takes the world w, the tool arguments a and the    *)
(* engine's behaviour e during the call: e.fault names the automation call *)
(* that throws ("none": none does), e.landing the url the page shows after *)
(* a history traversal or a submitted search.                              *)
(***************************************************************************)

\* part_001:169-184  callNavigate(browser, url)
callNavigate(w, a, e) ==
  LET g  == getActivePage(w)                                  \* line 170
      w1 == NewContext(g.w)                                   \* line 173
      w2 == NewPage(w1, Len(w1.contexts))                     \* line 174
      np == w1.nextPage
      gotoThrows == e.fault = "goto" \/ a.url = ""   \* goto(undefined) throws
  IN  IF g.page # None
      THEN IF gotoThrows                                      \* line 177
           THEN Ran(g.w, Thrown("goto failed"), g.page)
           ELSE Ran(Record([g.w EXCEPT !.url[g.page] = a.url], g.page),
                    Result("Navigated", FALSE), g.page)
      ELSE CASE e.fault = "newContext" -> Ran(g.w, Thrown("newContext failed"), None)
             [] e.fault = "newPage"    -> Ran(w1, Thrown("newPage failed"), None)
             [] gotoThrows             -> Ran(w2, Thrown("goto failed"), np)
             [] OTHER -> Ran(Record([w2 EXCEPT !.url[np] = a.url], np),
                             Result("Navigated", FALSE), np)

Last(s) == s[Len(s)]

\* part_001:396-406  the page the scan after the shortcut settles on
ScanNewPage(w, activePage) ==
  LET cs   == w.contexts
      hits == {c \in 1..Len(cs) : cs[c] # <<>> /\ Last(cs[c]) # activePage}
      c0   == CHOOSE c \in hits : \A d \in hits : c <= d
  IN  IF hits # {} THEN Last(cs[c0])
      ELSE IF cs = <<>> \/ Last(cs) = <<>> THEN None
      ELSE Last(Last(cs))

\* part_001:427-444  programmatic creation
OpenProgrammatic(w, a, e) ==
  LET w1 == NewContext(w)                                     \* line 428
      w2 == NewPage(w1, Len(w1.contexts))                     \* line 429
      np == w1.nextPage
  IN  CASE e.fault = "newContext" -> Ran(w, Result("Failed to open new tab", TRUE), None)
        [] e.fault = "newPage"    -> Ran(w1, Result("Failed to open new tab", TRUE), None)
        [] a.url # "" /\ e.fault = "goto" ->
             Ran(w2, Result("Failed to open new tab", TRUE), np)
        [] a.url # "" ->
             Ran(Record([w2 EXCEPT !.url[np] = a.url], np),
                 Result("Opened new tab and navigated", FALSE), np)
        [] OTHER -> Ran(Record(w2, np), Result("Opened new tab (about:blank)", FALSE), np)

\* part_001:381-451  callOpenNewTab(browser, url).  e.kb is what the
\* keyboard shortcut does: "throws", "nothing", or "newtab" (the browser
\* opens a tab in the active page's context).
callOpenNewTab(w, a, e) ==
  LET g  == getActivePage(w)                                  \* line 384
      wk == IF e.kb = "newtab" THEN NewPage(g.w, ContextOf(g.w, g.page)) ELSE g.w
      newPage == ScanNewPage(wk, g.page)
  IN  IF g.page = None THEN OpenProgrammatic(g.w, a, e)
      ELSE IF e.kb = "throws" THEN OpenProgrammatic(g.w, a, e)  \* line 422
      ELSE IF newPage # None /\ a.url # ""                    \* line 408
      THEN IF e.fault = "goto"
           THEN OpenProgrammatic(wk, a, e)                    \* line 422
           ELSE Ran(Record([wk EXCEPT !.url[newPage] = a.url], newPage),
                    Result("Opened new tab with keyboard shortcut and navigated", FALSE),
                    newPage)
      ELSE IF newPage # None                                  \* line 415
      THEN Ran(Record(wk, newPage),
               Result("Opened new tab with keyboard shortcut (about:blank)", FALSE),
               newPage)
      ELSE OpenProgrammatic(wk, a, e)

callReloadPageCloses(w, a, e) ==
  LET g == getActivePage(w)
  IN  IF g.page = None THEN Ran(g.w, Result("No active page", TRUE), None)
      ELSE Ran([g.w EXCEPT !.closed[g.page] = TRUE,
                           !.contexts = [c \in 1..Len(@) |->
                                           SelectSeq(@[c], LAMBDA q : q # g.page)]],
               Result("Page reloaded successfully", FALSE), g.page)

\* part_001:453-475  callReloadPage(browser)
callReloadPage(w, a, e) ==
  LET g == getActivePage(w)
  IN  IF g.page = None THEN Ran(g.w, Result("No active page", TRUE), None)
      ELSE IF e.fault = "reload"
      THEN Ran(g.w, Result("Failed to reload page", TRUE), g.page)
      ELSE Ran(g.w, Result("Page reloaded successfully", FALSE), g.page)

\* The strings of the model, as the characters String.prototype methods
\* read them by
Chars(str) ==
  CASE str = ""       -> <<>>
    [] str = Blank    -> <<"a", "b", "o", "u", "t", ":", "b", "l", "a", "n", "k">>
    [] str = SiteA    -> <<"h", "t", "t", "p", "s", ":", "/", "/", "a", ".",
                           "t", "e", "s", "t", "/">>
    [] str = SiteB    -> <<"h", "t", "t", "p", "s", ":", "/", "/", "b", ".",
                           "t", "e", "s", "t", "/">>
    [] str = "A Site" -> <<"A", " ", "S", "i", "t", "e">>
    [] str = "B Site" -> <<"B", " ", "S", "i", "t", "e">>
    [] str = "A.Test" -> <<"A", ".", "T", "e", "s", "t">>
    [] str = "b site" -> <<"b", " ", "s", "i", "t", "e">>
    [] str = "blank"  -> <<"b", "l", "a", "n", "k">>
    [] str = "nope"   -> <<"n", "o", "p", "e">>

LowerChar(c) ==
  CASE c = "A" -> "a"
    [] c = "B" -> "b"
    [] c = "S" -> "s"
    [] c = "T" -> "t"
    [] OTHER   -> c

\* String.prototype.toLowerCase
ToLowerCase(str) == [i \in 1..Len(Chars(str)) |-> LowerChar(Chars(str)[i])]

\* String.prototype.includes, on characters
Includes(hay, needle) ==
  \E k \in 0..(Len(hay) - Len(needle)) :
    SubSeq(hay, k + 1, k + Len(needle)) = needle

\* page.title(): the title the site at a url gives its page
TitleOf(u) ==
  CASE u = SiteA -> "A Site"
    [] u = SiteB -> "B Site"
    [] OTHER     -> ""

\* part_001:489  the default step counts
StepsWithTarget == 10
StepsWithoutTarget == 1

\* part_001:840-871, 873-895, 829, 952  the lengths of searchSelectors and
\* submitSelectors, defaultOptions.retryAttempts and the errors a failure shows
NumSearchSelectors == 23
NumSubmitSelectors == 14
DefaultRetryAttempts == 3
DefaultMaxParagraphLength == 1000  \* part_001:188
ShownParagraphs == 5               \* part_001:347
ReadyAttempts == 5
ShownErrors == 5

\* part_001:489  steps || (targetUrl || targetTitle ? 10 : 1); a.steps is
\* <<>> when the request has no steps
MaxStepsOf(a) ==
  IF a.steps # <<>> /\ a.steps[1] # 0 THEN a.steps[1]
  ELSE IF a.targetUrl # "" \/ a.targetTitle # "" THEN StepsWithTarget
  ELSE StepsWithoutTarget

AtTargetCaseSensitive(u, a) ==
  \/ a.targetUrl # "" /\ Includes(Chars(u), Chars(a.targetUrl))
  \/ a.targetTitle # "" /\ Includes(Chars(TitleOf(u)), Chars(a.targetTitle))

\* part_001:504-512 and 527-535  the page at url u is the target
AtTarget(u, a) ==
  \/ a.targetUrl # "" /\ Includes(ToLowerCase(u), ToLowerCase(a.targetUrl))
  \/ a.targetTitle # ""
       /\ Includes(ToLowerCase(TitleOf(u)), ToLowerCase(a.targetTitle))

\* part_001:494-546  the loop.  trail is the url the page started on
\* followed by the url after every traversal made; ahead are the history
\* entries in the direction of travel, nearest first; the e.failAt-th
\* goBack/goForward call throws (0: none does).  The loop yields the trail
\* and whether a traversal call threw.
Walked(trail, threw) == [trail |-> trail, threw |-> threw]

RECURSIVE HistoryLoop(_, _, _, _, _, _)
HistoryLoop(i, maxSteps, trail, ahead, a, e) ==
  LET currentUrl == trail[Len(trail)]                         \* line 498
      newUrl     == IF ahead = <<>> THEN currentUrl ELSE Head(ahead)
      rest       == IF ahead = <<>> THEN <<>> ELSE Tail(ahead)
      stepped    == Append(trail, newUrl)                     \* lines 515-516
  IN  IF i >= maxSteps THEN Walked(trail, FALSE)              \* line 494
      ELSE IF e.fault = "title" THEN Walked(trail, FALSE)     \* lines 499, 543
      ELSE IF AtTarget(currentUrl, a) THEN Walked(trail, FALSE) \* lines 504-512
      ELSE IF e.failAt = Len(trail) THEN Walked(trail, TRUE)  \* lines 515, 543
      ELSE IF AtTarget(newUrl, a) THEN Walked(stepped, FALSE) \* lines 527-535
      ELSE IF newUrl = currentUrl THEN Walked(stepped, FALSE) \* line 538
      ELSE HistoryLoop(i + 1, maxSteps, stepped, rest, a, e)

\* what callGoBack / callGoForward return: a Result with the step count it
\* reports (0 when it reports none) and, beside it, the urls the page went
\* through and whether a traversal call threw
HistoryResult(text, isError, walked, stepsTaken) ==
  [text |-> text, isError |-> isError, kind |-> "result",
   trail |-> walked.trail, threw |-> walked.threw, stepsTaken |-> stepsTaken]

HistoryFailsOnAnyThrow(walked, e) == e.fault = "title" \/ walked.threw

\* part_001:549-550, 579  the outer catch is reached by page.title() alone:
\* the traversals are inside the inner try
HistoryFails(walked, e) == e.fault = "title"

\* part_001:477-585 and 587-695  callGoBack / callGoForward.  The fault
\* "title" is page.title() throwing (at 499 caught by 543, at 550 by 579).
callGoHistory(w, a, e) ==
  LET g     == getActivePage(w)
      start == g.w.url[g.page]                                \* line 491
      walked == HistoryLoop(0, MaxStepsOf(a), <<start>>, e.hist, a, e)
      trail == walked.trail
      finalUrl   == trail[Len(trail)]                         \* line 549
      stepsTaken == Len(trail) - 1                            \* line 516
      w2    == [g.w EXCEPT !.url[g.page] = finalUrl]
  IN  IF g.page = None THEN Ran(g.w, Result("No active page", TRUE), None)
      ELSE IF HistoryFails(walked, e)                         \* lines 550, 579
      THEN Ran(w2, HistoryResult("Failed to navigate", TRUE, walked, 0), g.page)
      ELSE IF stepsTaken = 0                                  \* line 552
      THEN Ran(w2, HistoryResult("Unable to navigate", FALSE, walked, 0), g.page)
      ELSE IF AtTarget(finalUrl, a)                           \* lines 564-567
      THEN Ran(w2, HistoryResult("Navigated, reached target", FALSE, walked,
                                 stepsTaken), g.page)
      ELSE IF a.targetUrl # "" \/ a.targetTitle # ""          \* line 568
      THEN Ran(w2, HistoryResult("Navigated, target not found", FALSE, walked,
                                 stepsTaken), g.page)
      ELSE Ran(w2, HistoryResult("Navigated", FALSE, walked, stepsTaken), g.page)

callGoBack(w, a, e) == callGoHistory(w, a, e)

callGoForward(w, a, e) == callGoHistory(w, a, e)

\* part_001:67-108  getAllTabs(browser): one entry per page of every
\* context, in enumeration order; a page whose title() throws is left out.
\* The fault "title" is every page.title() throwing, e.failAt the one call
\* of them that throws (0: none).
getAllTabs(w, e) ==
  LET all == Flatten(w.contexts)
  IN  IF e.fault = "title" THEN <<>>
      ELSE IF e.failAt \in 1..Len(all)
      THEN SubSeq(all, 1, e.failAt - 1) \o SubSeq(all, e.failAt + 1, Len(all))
      ELSE all

TabMatchesTitleOnly(w, p, targetTabName) ==
  LET title == TitleOf(w.url[p])
  IN  title # "" /\ Includes(ToLowerCase(title), ToLowerCase(targetTabName))

\* part_001:732-737  the predicate of tabInfo.find
TabMatches(w, p, targetTabName) ==
  LET title == TitleOf(w.url[p])
      needle == ToLowerCase(targetTabName)
  IN  \/ title # "" /\ Includes(ToLowerCase(title), needle)         \* line 733
      \/ w.url[p] # "" /\ Includes(ToLowerCase(w.url[p]), needle)   \* line 734

\* what callSwitchTab returns: a Result and the tabs it lists, in its
\* tabs field or in its message
SwitchResult(text, isError, tabs) ==
  [text |-> text, isError |-> isError, kind |-> "result", tabs |-> tabs]

\* part_001:697-772  callSwitchTab(browser, targetTabName)
callSwitchTab(w, a, e) ==
  LET tabInfo == getAllTabs(w, e)
      hits == {i \in 1..Len(tabInfo) : TabMatches(w, tabInfo[i], a.targetTabName)}
      t == tabInfo[CHOOSE i \in hits : \A j \in hits : i <= j]   \* line 732
  IN  IF tabInfo = <<>>                                       \* line 705
      THEN Ran(w, SwitchResult("No tabs found", TRUE, <<>>), None)
      ELSE IF a.targetTabName = ""                            \* line 722
      THEN Ran(w, SwitchResult("Current tabs", FALSE, tabInfo), None)
      ELSE IF hits = {}                                       \* line 739
      THEN Ran(w, SwitchResult("Tab not found", TRUE, tabInfo), None)
      ELSE IF e.fault = "bringToFront"                        \* lines 751, 762
      THEN Ran(w, SwitchResult("Error managing tabs", TRUE, <<>>), t)
      ELSE Ran(Record(w, t), SwitchResult("Switched to tab", FALSE, <<>>), t)

\* A text is the sequence of its characters.
\* String.prototype.trim: the text without its leading and trailing blanks
Trim(t) ==
  LET ink == {i \in 1..Len(t) : t[i] # " "}
  IN  IF ink = {} THEN <<>>
      ELSE SubSeq(t, CHOOSE i \in ink : \A j \in ink : i <= j,
                     CHOOSE i \in ink : \A j \in ink : j <= i)

\* part_001:187-196  config of { ...defaultOptions, ...options }
MaxParagraphLengthOf(a) ==
  IF a.maxParagraphLength = <<>> THEN DefaultMaxParagraphLength
  ELSE a.maxParagraphLength[1]

DeduplicateContentOf(a) ==
  IF a.deduplicateContent = <<>> THEN TRUE ELSE a.deduplicateContent[1]

ParagraphFitsAnyLength(text, a) == Len(text) > 0

\* part_001:241  text.length > 0 && text.length <= config.maxParagraphLength
ParagraphFits(text, a) == Len(text) > 0 /\ Len(text) <= MaxParagraphLengthOf(a)

\* part_001:236-249  paragraphs.forEach, from paragraph i on
RECURSIVE ParagraphLoop(_, _, _, _, _)
ParagraphLoop(ps, i, seenParagraphs, paragraphs, a) ==
  IF i > Len(ps) THEN paragraphs
  ELSE LET text == Trim(ps[i])
       IN  IF /\ ParagraphFits(text, a)
              /\ (~DeduplicateContentOf(a) \/ text \notin seenParagraphs)
           THEN ParagraphLoop(ps, i + 1,
                              IF DeduplicateContentOf(a)
                              THEN seenParagraphs \cup {text}
                              ELSE seenParagraphs,
                              Append(paragraphs, text), a)
           ELSE ParagraphLoop(ps, i + 1, seenParagraphs, paragraphs, a)

\* part_001:347  content.paragraphs.slice(0, 5)
KeyParagraphs(paragraphs) ==
  SubSeq(paragraphs, 1, IF Len(paragraphs) < ShownParagraphs
                        THEN Len(paragraphs) ELSE ShownParagraphs)

\* the result of get_page_content: raw.paragraphs of the extraction and the
\* paragraphs its formatted text lists under "Key Paragraphs"
ContentResult(text, isError, paragraphs) ==
  [text |-> text, isError |-> isError, kind |-> "result",
   paragraphs |-> paragraphs, key |-> KeyParagraphs(paragraphs)]

\* part_001:774-796  callGetPageContent(browser, options); e.paras are the
\* innerText of the page's p elements in document order
callGetPageContent(w, a, e) ==
  LET g == getActivePage(w)
  IN  IF g.page = None
      THEN Ran(g.w, ContentResult("No active page", TRUE, <<>>), None)
      ELSE IF e.fault = "evaluate"
      THEN Ran(g.w, ContentResult("Failed to extract page content", TRUE, <<>>),
               g.page)
      ELSE Ran(g.w, ContentResult("Page content", FALSE,
                                  ParagraphLoop(e.paras, 1, {}, <<>>, a)),
               g.page)

callGetHtmlOpensTab(w, a, e) == callNavigate(w, [a EXCEPT !.url = Blank], e)

\* part_001:798-813  callGetHtml(browser)
callGetHtml(w, a, e) ==
  LET g == getActivePage(w)
  IN  IF g.page = None THEN Ran(g.w, Result("No active page", TRUE), None)
      ELSE IF e.fault = "content"                             \* line 808
      THEN Ran(g.w, Thrown("content failed"), g.page)
      ELSE Ran(g.w, Result("Page html", FALSE), g.page)

(***************************************************************************)
(* callSearch.  The engine's behaviour during a search is e.search:        *)
(*   passes   what each pass over searchSelectors finds, one entry per     *)
(*            pass (a pass past the last entry finds nothing): what the    *)
(*            first and what the last selector of the list resolve to,     *)
(*            every other selector resolving to nothing.  "absent" is a    *)
(*            waitFor that throws, "blocked" an element not visible or     *)
(*            not enabled, any other value the text inputValue() returns   *)
(*            after typing;                                                *)
(*   backoff  the pass after which page.waitForTimeout(1000) throws        *)
(*            (0: it never does);                                          *)
(*   enter    "ok" or "throws": what page.keyboard.press('Enter') does;    *)
(*            a press that went through takes the page to e.landing, as    *)
(*            does a submit button's click;                                *)
(*   counts   what the result locator's count() gives at line 990 and at   *)
(*            line 1059, Throws when it throws;                            *)
(*   buttons  the elements the first submitSelectors resolve to, every     *)
(*            later selector resolving to nothing;                         *)
(*   idle     "ok" or "throws": what page.waitForLoadState('networkidle')  *)
(*            does, throwing when the navigation timeout passes first.     *)
(* The result carries a trace of the engine calls made, in order.          *)
(***************************************************************************)
Throws == 0 - 1

Event(op, sel, val) == [op |-> op, sel |-> sel, val |-> val]

\* part_001:834  config.retryAttempts of { ...defaultOptions, ...options }
RetryAttemptsOf(a) ==
  IF a.retryAttempts = <<>> THEN DefaultRetryAttempts ELSE a.retryAttempts[1]

\* what selector k of searchSelectors resolves to in pass attempt (from 0)
InputAt(s, attempt, k) ==
  IF attempt + 1 > Len(s.passes) THEN "absent"
  ELSE IF k = 1 THEN s.passes[attempt + 1].first
  ELSE IF k = NumSearchSelectors THEN s.passes[attempt + 1].last
  ELSE "absent"

VerifiedAnyText(enteredText, searchText) == TRUE

\* part_001:925  enteredText === searchText
Verified(enteredText, searchText) == enteredText = searchText

SearchError(attempt, sel, why) == [sel |-> sel, attempt |-> attempt, why |-> why]

\* part_001:903-940  one pass over searchSelectors, from selector k on
RECURSIVE SelectorLoop(_, _, _, _, _)
SelectorLoop(k, attempt, st, a, s) ==
  LET got == InputAt(s, attempt, k)
  IN  IF k > NumSearchSelectors THEN st
      ELSE IF got = "absent"                                  \* lines 906, 936
      THEN SelectorLoop(k + 1, attempt,
             [st EXCEPT !.errors = Append(@, SearchError(attempt, k, "failed"))],
             a, s)
      ELSE IF got = "blocked"                                 \* lines 911, 934
      THEN SelectorLoop(k + 1, attempt,
             [st EXCEPT !.errors = Append(@, SearchError(attempt, k, "not interactable"))],
             a, s)
      ELSE IF Verified(got, a.searchText)                     \* lines 923-929
      THEN [st EXCEPT !.trace = Append(@, Event("read", k, got)), !.used = k]
      ELSE SelectorLoop(k + 1, attempt,                       \* line 931
             [st EXCEPT !.errors = Append(@, SearchError(attempt, k, "verification failed")),
                        !.trace = Append(@, Event("read", k, got))],
             a, s)

BackoffAfterEveryFailedPass(attempt, retryAttempts, typeSuccess) == ~typeSuccess

\* part_001:943  attempt < config.retryAttempts - 1 && !typeSuccess
BackoffDue(attempt, retryAttempts, typeSuccess) ==
  attempt < retryAttempts - 1 /\ ~typeSuccess

PassDueWhileAttemptsLeft(attempt, st, a) == attempt < RetryAttemptsOf(a)

\* part_001:902  attempt < config.retryAttempts && !typeSuccess
PassDue(attempt, st, a) == attempt < RetryAttemptsOf(a) /\ st.used = 0

\* part_001:902-946  the passes, from pass attempt on
RECURSIVE AttemptLoop(_, _, _, _)
AttemptLoop(attempt, st, a, s) ==
  LET began == [st EXCEPT !.trace = Append(@, Event("pass", attempt, ""))]
      after == SelectorLoop(1, attempt, began, a, s)
  IN  IF ~PassDue(attempt, st, a) THEN st
      ELSE IF BackoffDue(attempt, RetryAttemptsOf(a), after.used # 0)
      THEN IF s.backoff = attempt + 1                         \* line 944 throws
           THEN [after EXCEPT !.trace = Append(@, Event("backoff", attempt, "threw")),
                              !.threw = TRUE]
           ELSE AttemptLoop(attempt + 1,
                  [after EXCEPT !.trace = Append(@, Event("backoff", attempt, "ok"))],
                  a, s)
      ELSE AttemptLoop(attempt + 1, after, a, s)

\* part_001:952  errors.slice(-5)
Shown(errors) ==
  IF Len(errors) <= ShownErrors THEN errors
  ELSE SubSeq(errors, Len(errors) - ShownErrors + 1, Len(errors))

\* part_001:997  urlChanged || hasSearchResults
EnterWorked(urlChanged, hasSearchResults) == urlChanged \/ hasSearchResults

\* what submit selector k resolves to
ButtonAt(s, k) ==
  IF k <= Len(s.buttons) THEN s.buttons[k]
  ELSE [visible |-> FALSE, enabled |-> FALSE, hit |-> FALSE]

ButtonUsableIfVisible(el) == el.visible

\* part_001:1025-1027  waitFor() returned, isVisible() && isEnabled()
ButtonUsable(el) == el.visible /\ el.enabled

\* part_001:1022-1039  the loop over submitSelectors, from selector k on:
\* the trace so far and the selector whose click went through (0: none)
RECURSIVE ButtonLoop(_, _, _)
ButtonLoop(k, trace, s) ==
  IF k > NumSubmitSelectors THEN [trace |-> trace, button |-> 0]
  ELSE IF ~ButtonUsable(ButtonAt(s, k)) THEN ButtonLoop(k + 1, trace, s)
  ELSE IF ButtonAt(s, k).hit                                  \* line 1030
  THEN [trace |-> Append(trace, Event("click", k, "ok")), button |-> k]
  ELSE ButtonLoop(k + 1, Append(trace, Event("click", k, "threw")), s)

\* what callSearch returns: a Result, the engine calls it made, the
\* per-selector errors it collected, those its message shows and, when the
\* message has them, the five fields of the report
SearchResult(text, isError, trace, errors, shown, report) ==
  [text |-> text, isError |-> isError, kind |-> "result", errors |-> errors,
   trace |-> trace, shown |-> shown, report |-> report]

Report(used, button, submitMethod, urlChanged, finalUrl, hasSearchResults) ==
  <<[finalUrl |-> finalUrl, used |-> used, urlChanged |-> urlChanged,
     hasSearchResults |-> hasSearchResults, button |-> button,
     submitMethod |-> submitMethod]>>

\* part_001:834  config.waitForNavigation of { ...defaultOptions, ...options }
WaitForNavigationOf(a) ==
  IF a.waitForNavigation = <<>> THEN TRUE ELSE a.waitForNavigation[1]

\* part_001:976-982 and 1049-1054  the wait for network-idle and, when it
\* throws, the fixed delay
IdleThenDelay(trace, s) ==
  IF s.idle = "throws"
  THEN Append(Append(trace, Event("idle", 0, "threw")), Event("delay", 0, "ok"))
  ELSE Append(trace, Event("idle", 0, "ok"))

\* part_001:973-985  the wait after the Enter press
WaitAfterEnter(trace, a, s) ==
  IF WaitForNavigationOf(a) THEN IdleThenDelay(trace, s)
  ELSE Append(trace, Event("delay", 0, "ok"))                 \* line 984

\* part_001:1047-1055  the wait after the button fallback
WaitAfterButton(trace, buttonSuccess, a, s) ==
  IF buttonSuccess /\ WaitForNavigationOf(a) THEN IdleThenDelay(trace, s)
  ELSE trace

\* part_001:1019-1074  Steps 3 and 4: the button fallback and the report
SubmitByButton(w, page, initialUrl, typed, trace, a, e) ==
  LET s        == e.search
      tried    == ButtonLoop(1, Append(trace, Event("fallback", 0, "")), s)
      w2       == IF tried.button # 0 THEN [w EXCEPT !.url[page] = e.landing] ELSE w
      finalUrl == w2.url[page]                                \* line 1058
      read     == Append(WaitAfterButton(tried.trace, tried.button # 0, a, s),
                         Event("url", 0, finalUrl))
      submitMethod == IF tried.button # 0 THEN "button"       \* line 1032
                      ELSE "Enter key (no button found)"      \* line 1043
  IN  IF s.counts[2] = Throws                                 \* lines 1059, 1076
      THEN Ran(w2, SearchResult("Search operation failed", TRUE,
                     Append(read, Event("count", 0, "threw")),
                     typed.errors, <<>>, <<>>), page)
      ELSE Ran(w2, SearchResult("Search completed!", FALSE,
                     Append(read, Event("count", s.counts[2], "ok")),
                     typed.errors, <<>>,
                     Report(typed.used, tried.button, submitMethod,
                            finalUrl # initialUrl, finalUrl,
                            s.counts[2] > 0)), page)

\* part_001:958-1017  Step 2: the Enter key
SubmitByEnter(w, page, typed, a, e) ==
  LET s          == e.search
      initialUrl == w.url[page]                               \* line 959
      t0         == Append(typed.trace, Event("url", 0, initialUrl))
      w2         == [w EXCEPT !.url[page] = e.landing]
      finalUrl   == w2.url[page]                              \* line 988
      t1         == Append(WaitAfterEnter(Append(t0, Event("enter", 0, "ok")), a, s),
                           Event("url", 0, finalUrl))
      urlChanged == finalUrl # initialUrl                     \* line 989
      hasSearchResults == s.counts[1] > 0                     \* line 990
  IN  IF s.enter = "throws"                                   \* lines 967, 1015
      THEN SubmitByButton(w, page, initialUrl, typed,
                          Append(t0, Event("enter", 0, "threw")), a, e)
      ELSE IF s.counts[1] = Throws                            \* lines 990, 1015
      THEN SubmitByButton(w2, page, initialUrl, typed,
                          Append(t1, Event("count", 0, "threw")), a, e)
      ELSE IF EnterWorked(urlChanged, hasSearchResults)       \* line 997
      THEN Ran(w2, SearchResult("Search completed successfully!", FALSE,
                     Append(t1, Event("count", s.counts[1], "ok")),
                     typed.errors, <<>>,
                     Report(typed.used, 0, "Enter key", urlChanged, finalUrl,
                            hasSearchResults)), page)
      ELSE SubmitByButton(w2, page, initialUrl, typed,
                          Append(t1, Event("count", s.counts[1], "ok")), a, e)

\* part_001:815-1085  callSearch(browser, searchText, options)
callSearch(w, a, e) ==
  LET g     == getActivePage(w)
      typed == AttemptLoop(0, [threw |-> FALSE, errors |-> <<>>,
                               trace |-> <<>>, used |-> 0], a, e.search)
  IN  IF g.page = None THEN Ran(g.w, Result("No active page", TRUE), None)
      ELSE IF typed.threw                                     \* line 1076
      THEN Ran(g.w, SearchResult("Search operation failed", TRUE, typed.trace,
                                 typed.errors, <<>>, <<>>), g.page)
      ELSE IF typed.used = 0                                  \* line 948
      THEN Ran(g.w, SearchResult("Failed to find accessible search bar", TRUE,
                                 typed.trace, typed.errors,
                                 Shown(typed.errors), <<>>), g.page)
      ELSE SubmitByEnter(g.w, g.page, typed, a, e)

\* part_001:1087-1118, 1120-1151, 1153-1184  callFill, callSelect and
\* callHover: waitFor, then the action, both inside the try
callOnElement(w, a, e, done) ==
  LET g == getActivePage(w)
  IN  IF g.page = None THEN Ran(g.w, Result("No active page", TRUE), None)
      ELSE IF e.fault \in {"waitFor", "act"}
      THEN Ran(g.w, Result("Failed on element", TRUE), g.page)
      ELSE Ran(g.w, Result(done, FALSE), g.page)

callFill(w, a, e) == callOnElement(w, a, e, "Filled")

callSelect(w, a, e) == callOnElement(w, a, e, "Selected")

callHover(w, a, e) == callOnElement(w, a, e, "Hovered")

(***************************************************************************)
(* callClick.  The elements a selector matches are e.els, in document      *)
(* order; each is [visible, enabled, hit], hit being whether a click on    *)
(* the visible and enabled element lands (it does not on an element that   *)
(* something covers).  The DOM does not change during one call.  A hidden  *)
(* element is never asked whether it is enabled before waitFor has thrown  *)
(* or isVisible has answered false, so its enabled flag is left true.      *)
(*   locator.waitFor()  throws unless the element is visible               *)
(*   locator.click()    throws unless it is visible, enabled and hit       *)
(* a.nth is <<>> for undefined and <<k>> for the number k; e.rnd is        *)
(* Math.floor(Math.random() * count).  Element i of the code is els[i+1].  *)
(***************************************************************************)
WaitForOk(el) == el.visible

ClickOk(el) == el.visible /\ el.enabled /\ el.hit

\* the Result of callClick: the message, the element index and selection
\* method the message names (-1 and "" when it names none), the range it
\* names (-1, -1 when none), the indices clicked and the caught errors
\* whose messages it quotes
ClickResult(text, isError, index, how, clicks) ==
  [text |-> text, isError |-> isError, kind |-> "result", index |-> index,
   how |-> how, clicks |-> clicks, rangeLo |-> -1, rangeHi |-> -1,
   quoted |-> <<>>]

\* part_001:1338-1360  element.first() after the target threw
ClickFirstFallback(els) ==
  IF WaitForOk(els[1]) /\ ClickOk(els[1])
  THEN ClickResult("Clicked (first element - fallback after random selection failed)",
                   FALSE, 0, "fallback", <<0>>)
  ELSE [ClickResult("Failed to click any element", TRUE, -1, "", <<>>)
          EXCEPT !.quoted = <<"targetError", "fallbackError">>]     \* line 1356

ClickScanAborts(els) ==
  LET tried == {i \in 0..(Len(els) - 1) : els[i + 1].visible /\ els[i + 1].enabled}
      i0 == CHOOSE i \in tried : \A j \in tried : i <= j
  IN  IF tried # {} /\ ClickOk(els[i0 + 1])
      THEN ClickResult("Clicked (fallback after random target was not clickable)",
                       FALSE, i0, "fallback", <<i0>>)
      ELSE ClickResult("No clickable elements found", TRUE, -1, "", <<>>)

\* part_001:1275-1306  the scan for the first clickable element; a
\* candidate whose click throws is passed over (lines 1295-1297)
ClickScanFallback(els) ==
  LET ok == {i \in 0..(Len(els) - 1) :
               els[i + 1].visible /\ els[i + 1].enabled /\ ClickOk(els[i + 1])}
      i0 == CHOOSE i \in ok : \A j \in ok : i <= j
  IN  IF ok # {}
      THEN ClickResult("Clicked (fallback after random target was not clickable)",
                       FALSE, i0, "fallback", <<i0>>)
      ELSE ClickResult("No clickable elements found", TRUE, -1, "", <<>>)

\* part_001:1253  element.nth(targetIndex): an index past the matches
\* resolves to no element, which is never visible
ElementAt(els, i) ==
  IF i \in 0..(Len(els) - 1) THEN els[i + 1]
  ELSE [visible |-> FALSE, enabled |-> FALSE, hit |-> FALSE]

InvalidNthOffByOne(nth, count) == nth < 0 \/ nth > count

\* part_001:1232  the range check on an explicit nth
InvalidNth(nth, count) == nth < 0 \/ nth >= count

\* part_001:1224-1361  count > 1
ClickAmongSeveral(els, nth, rnd) ==
  LET count  == Len(els)
      given  == nth # <<>>                                    \* line 1230
      targetIndex == IF given THEN nth[1] ELSE rnd            \* lines 1241, 1245
      target == ElementAt(els, targetIndex)                   \* line 1253
      how    == IF given THEN "specified nth" ELSE "randomly selected"
      targetError ==                                          \* line 1322
        IF given
        THEN [ClickResult("Failed to click element nth", TRUE, targetIndex, "", <<>>)
                EXCEPT !.quoted = <<"targetError">>]          \* line 1330
        ELSE ClickFirstFallback(els)
  IN  IF given /\ InvalidNth(nth[1], count)                   \* line 1232
      THEN [ClickResult("Invalid nth value", TRUE, -1, "", <<>>)
              EXCEPT !.rangeLo = 0, !.rangeHi = count - 1]
      ELSE IF ~WaitForOk(target) THEN targetError             \* line 1254
      ELSE IF ~target.visible \/ ~target.enabled              \* line 1259
      THEN IF given
           THEN ClickResult("Element nth is not clickable", TRUE, targetIndex, "", <<>>)
           ELSE ClickScanFallback(els)
      ELSE IF ~ClickOk(target) THEN targetError               \* line 1311
      ELSE ClickResult("Clicked (element of count)", FALSE, targetIndex, how,
                       <<targetIndex>>)

ClickSingleUnchecked(els) ==
  IF WaitForOk(els[1])
  THEN ClickResult("Clicked", FALSE, -1, "", <<0>>)
  ELSE ClickResult("Failed to click", TRUE, -1, "", <<>>)

\* part_001:1211-1222  count = 1: waitFor, scrollIntoViewIfNeeded, click;
\* a step that throws lands in the outer catch (lines 1363-1384)
ClickSingle(els) ==
  IF WaitForOk(els[1]) /\ ClickOk(els[1])
  THEN ClickResult("Clicked", FALSE, -1, "", <<0>>)
  ELSE ClickResult("Failed to click", TRUE, -1, "", <<>>)

\* part_001:1196-1384  the body of callClick once it has a page
ClickOnPage(els, nth, rnd, fault) ==
  LET count == Len(els)
  IN  IF fault = "count"                                      \* line 1201
      THEN ClickResult("Failed to click", TRUE, -1, "", <<>>)
      ELSE IF count = 0                                       \* line 1204
      THEN ClickResult("No elements found", TRUE, -1, "", <<>>)
      ELSE IF count = 1                                       \* line 1211
      THEN ClickSingle(els)
      ELSE ClickAmongSeveral(els, nth, rnd)

\* part_001:1186-1385  callClick(browser, selector, nth).  A click that
\* lands leaves the page on e.landing.
callClick(w, a, e) ==
  LET g   == getActivePage(w)                                 \* line 1187
      res == ClickOnPage(e.els, a.nth, e.rnd, e.fault)
  IN  IF g.page = None
      THEN Ran(g.w, ClickResult("No active page", TRUE, -1, "", <<>>), None)
      ELSE IF res.clicks # <<>>
      THEN Ran([g.w EXCEPT !.url[g.page] = e.landing], res, g.page)
      ELSE Ran(g.w, res, g.page)

(***************************************************************************)
(* part_000:1-156  toolsList, by the names of its entries                  *)
(***************************************************************************)
toolsListWithoutHover ==
  <<"navigate", "open_new_tab", "reload_page", "go_back", "go_forward",
    "switch_tab", "search", "get_page_content", "get_html", "fill", "select",
    "click">>

toolsList ==
  <<"navigate", "open_new_tab", "reload_page", "go_back", "go_forward",
    "switch_tab", "search", "get_page_content", "get_html", "fill", "select",
    "hover", "click">>

(***************************************************************************)
(* toolHandlers.ts:4-40  handleToolCall(toolName, toolArguments, browser)  *)
(***************************************************************************)
handleToolCall(toolName, a, w, e) ==
  CASE toolName = "navigate"         -> callNavigate(w, a, e)
    [] toolName = "open_new_tab"     -> callOpenNewTab(w, a, e)
    [] toolName = "reload_page"      -> callReloadPage(w, a, e)
    [] toolName = "go_back"          -> callGoBack(w, a, e)
    [] toolName = "go_forward"       -> callGoForward(w, a, e)
    [] toolName = "switch_tab"       -> callSwitchTab(w, a, e)
    [] toolName = "get_page_content" -> callGetPageContent(w, a, e)
    [] toolName = "get_html"         -> callGetHtml(w, a, e)
    [] toolName = "search"           -> callSearch(w, a, e)
    [] toolName = "fill"             -> callFill(w, a, e)
    [] toolName = "select"           -> callSelect(w, a, e)
    [] toolName = "hover"            -> callHover(w, a, e)
    [] toolName = "click"            -> callClick(w, [a EXCEPT !.nth = <<>>], e)  \* line 36
    [] OTHER                         -> Ran(w, Thrown("Unknown tool"), None)      \* line 38

(***************************************************************************)
(* part_002:20-144  POST /mcp.  A request body is                          *)
(*   [body, method, id, name, a]                                           *)
(* body: whether req.body is an object; method, id, name: the strings sent *)
(* ("undefined" for a key that is absent; ids are JSON values written as   *)
(* strings); a: params.arguments.                                          *)
(***************************************************************************)
Undefined == "undefined"

\* JavaScript's x || null on an id
OrNull(id) == IF id \in {Undefined, "null", "0", ""} THEN "null" ELSE id

\* part_002:13-18  ensureSessionInitialized()
ensureSessionInitialized(session) ==
  IF session = "null" THEN "initialized" ELSE session

\* part_002:87-93  the response to a tool call that returned
ToolResponse(id, toolResult) ==
  [status |-> 200,
   body |-> [id |-> id, jsonrpc |-> "2.0",
             result |-> [content |-> toolResult.text]]]

\* part_002:95-106  the response to a tool call that threw
ToolFailure(id, toolName, a, error) ==
  [status |-> 200,
   body |-> [id |-> id, jsonrpc |-> "2.0",
             error |-> [code |-> -32603, message |-> error.text,
                        data |-> [toolName |-> toolName, arguments |-> a]]]]

ListToolsNeedsSession(session, id) ==
  IF session = "null"
  THEN [status |-> 200,
        body |-> [id |-> id, jsonrpc |-> "2.0",
                  error |-> [code |-> -32600, message |-> "Not initialized"]]]
  ELSE [status |-> 200,
        body |-> [id |-> id, jsonrpc |-> "2.0", result |-> [tools |-> toolsList]]]

\* part_002:65-75  the response to tools/list, built in the session the
\* request found
ListTools(session, id) ==
  [status |-> 200,
   body |-> [id |-> id, jsonrpc |-> "2.0", result |-> [tools |-> toolsList]]]

\* part_002:20-144  the session and the response the handler leaves, given
\* what the dispatched executor did (ran is read for tools/call only)
SessionResetOnInitialize(session) == "uninitialized"

\* part_002:28-30  if (!httpOnlySession) httpOnlySession = { initialized: false }
SessionOnInitialize(session) ==
  IF session = "null" THEN "uninitialized" ELSE session

PostMcp(session, req, ran) ==
  IF req.body /\ req.method # Undefined                       \* line 24
  THEN CASE req.method = "initialize" ->                      \* lines 28-51
              [response |-> [status |-> 200,
                             body |-> [id |-> req.id, jsonrpc |-> "2.0",
                                       result |-> [protocolVersion |-> "2025-03-26"]]],
               session |-> SessionOnInitialize(session)]
         [] req.method = "notifications/initialized" ->       \* lines 53-63
              [response |-> [status |-> 200,
                             body |-> [id |-> req.id, jsonrpc |-> "2.0",
                                       result |-> [null |-> TRUE]]],
               session |-> IF session # "null" THEN "initialized" ELSE session]
         [] req.method = "tools/list" ->                      \* lines 65-75
              [response |-> ListTools(session, req.id),
               session |-> ensureSessionInitialized(session)]
         [] req.method = "tools/call" ->                      \* lines 77-108
              [response |-> IF ran.out.kind = "result"
                            THEN ToolResponse(req.id, ran.out)
                            ELSE ToolFailure(req.id, req.name, req.a, ran.out),
               session |-> ensureSessionInitialized(session)]
         [] OTHER ->                                          \* lines 110-118
              [response |-> [status |-> 200,
                             body |-> [id |-> req.id, jsonrpc |-> "2.0",
                                       error |-> [code |-> -32601,
                                                  message |-> "Method not found"]]],
               session |-> session]
  ELSE [response |-> [status |-> 400,                         \* lines 123-131
                      body |-> [id |-> OrNull(req.id), jsonrpc |-> "2.0",
                                error |-> [code |-> -32600,
                                           message |-> "Invalid Request"]]],
        session |-> session]

(***************************************************************************)
(* The state and the inputs.                                               *)
(***************************************************************************)
World ==
  [contexts |-> contexts, url |-> url, closed |-> closed,
   nextPage |-> nextPage, order |-> recentTabOrder]

SetWorld(w) ==
  /\ contexts' = w.contexts
  /\ url' = w.url
  /\ closed' = w.closed
  /\ nextPage' = w.nextPage
  /\ recentTabOrder' = w.order

InBounds(w) == w.nextPage <= MaxPages + 1 /\ Len(w.contexts) <= MaxContexts

Ids == {Undefined, "0", "7"}
AnId == "7"

BaseArgs == [url |-> "", steps |-> <<>>, targetUrl |-> "", targetTitle |-> "",
             targetTabName |-> "", maxParagraphLength |-> <<>>,
             deduplicateContent |-> <<>>, retryAttempts |-> <<>>,
             searchText |-> "", waitForNavigation |-> <<>>, nth |-> <<>>]

NoSearch == [passes |-> <<>>, backoff |-> 0, buttons |-> <<>>,
             idle |-> "ok", counts |-> <<0, 0>>, enter |-> "ok"]

BaseEng == [fault |-> "none", kb |-> "nothing", failAt |-> 0, hist |-> <<>>,
            paras |-> <<>>, search |-> NoSearch, landing |-> Blank,
            els |-> <<>>, rnd |-> 0]

NoRun == [page |-> None, out |-> Result("", FALSE), tool |-> "none"]

NoRequest == [a |-> BaseArgs, id |-> Undefined, body |-> FALSE,
              method |-> "none", name |-> Undefined]

NoResponse == [status |-> 0, body |-> [id |-> Undefined, jsonrpc |-> "2.0"]]

Idle == [a |-> BaseArgs, e |-> BaseEng]

ElOk       == [visible |-> TRUE,  enabled |-> TRUE,  hit |-> TRUE]
ElCovered  == [visible |-> TRUE,  enabled |-> TRUE,  hit |-> FALSE]
ElDisabled == [visible |-> TRUE,  enabled |-> FALSE, hit |-> TRUE]
ElHidden   == [visible |-> FALSE, enabled |-> TRUE,  hit |-> TRUE]
Elements   == {ElOk, ElCovered, ElDisabled, ElHidden}

SeqsUpTo(S, n) == UNION {[1..k -> S] : k \in 0..n}

SearchText == "cats"

InputPass(first, last) == [first |-> first, last |-> last]

Rnds(els) == IF Len(els) > 1 THEN 0..(Len(els) - 1) ELSE {0}

(***************************************************************************)
(* The state after startup: recentTabOrder is empty (part_001:4), no       *)
(* session exists (part_002:11), and the browser initBrowser returned has  *)
(* no context (a launched browser) or one context with the tab the         *)
(* attached browser shows.                                                 *)
(***************************************************************************)
InitBrowser ==
  \/ /\ contexts = <<>>
     /\ url = <<>>
     /\ closed = <<>>
     /\ nextPage = 1
  \/ /\ contexts = << <<1>> >>
     /\ url \in [{1} -> Urls]
     /\ closed = <<FALSE>>
     /\ nextPage = 2

InitServer ==
  /\ recentTabOrder = <<>>
  /\ calls = 0
  /\ seen = 0
  /\ lastRecorded = None
  /\ InitBrowser
  /\ httpOnlySession = "null"
  /\ request = NoRequest
  /\ response = NoResponse
  /\ run = NoRun

Init == InitServer /\ engine = Idle

(***************************************************************************)
(* One POST /mcp request, handled to completion (part_002:20-144).  The    *)
(* client sends one request at a time: it sends the next once res.json has *)
(* delivered the response to the last.                                     *)
(***************************************************************************)
Handle(req, e) ==
  LET isCall == req.body /\ req.method = "tools/call"
      ran    == handleToolCall(req.name, req.a, World, e)     \* part_002:85
      h      == PostMcp(httpOnlySession, req, ran)
  IN  /\ response = NoResponse
      /\ isCall => InBounds(ran.w)
      /\ request' = req
      /\ httpOnlySession' = h.session
      /\ response' = h.response
      /\ IF isCall
         THEN /\ SetWorld(ran.w)
              /\ run' = [page |-> ran.page, out |-> ran.out, tool |-> req.name]
         ELSE /\ UNCHANGED <<browserVars, recentTabOrder>>
              /\ run' = NoRun
      /\ UNCHANGED <<calls, seen, lastRecorded, engine>>

Envelope(method, id) ==
  [a |-> BaseArgs, id |-> id, body |-> TRUE, method |-> method, name |-> Undefined]

Call(id, name, a) ==
  [a |-> a, id |-> id, body |-> TRUE, method |-> "tools/call", name |-> name]

Initialize == \E id \in Ids : Handle(Envelope("initialize", id), BaseEng)

NotifyInitialized ==
  \E id \in Ids : Handle(Envelope("notifications/initialized", id), BaseEng)

ToolsList == \E id \in Ids : Handle(Envelope("tools/list", id), BaseEng)

UnknownMethod == \E id \in Ids : Handle(Envelope("resources/list", id), BaseEng)

InvalidRequest ==
  \/ \E id \in Ids : Handle(Envelope(Undefined, id), BaseEng)
  \/ Handle([Envelope(Undefined, Undefined) EXCEPT !.body = FALSE], BaseEng)

UnknownTool ==
  \E id \in Ids, name \in {"bogus", Undefined} :
    Handle(Call(id, name, BaseArgs), BaseEng)

Navigate ==
  \E u \in {"", Blank, SiteA},
     f \in {"none", "newContext", "newPage", "goto"} :
    Handle(Call(AnId, "navigate", [BaseArgs EXCEPT !.url = u]),
           [BaseEng EXCEPT !.fault = f])

OpenNewTab ==
  \E u \in {"", SiteA}, kb \in {"throws", "nothing", "newtab"},
     f \in {"none", "newContext", "newPage", "goto"} :
    Handle(Call(AnId, "open_new_tab", [BaseArgs EXCEPT !.url = u]),
           [BaseEng EXCEPT !.fault = f, !.kb = kb])

ReloadPage ==
  \E f \in {"none", "reload"} :
    Handle(Call(AnId, "reload_page", BaseArgs), [BaseEng EXCEPT !.fault = f])

GoBack ==
  \E f \in {"none", "title"}, k \in {0, 1}, h \in SeqsUpTo(Urls, 1) :
    Handle(Call(AnId, "go_back", BaseArgs),
           [BaseEng EXCEPT !.fault = f, !.failAt = k, !.hist = h])

GoForward ==
  \E f \in {"none", "title"}, k \in {0, 1}, h \in SeqsUpTo(Urls, 1) :
    Handle(Call(AnId, "go_forward", BaseArgs),
           [BaseEng EXCEPT !.fault = f, !.failAt = k, !.hist = h])

SwitchTab ==
  \E t \in {"", "A.Test", "blank", "nope"},
     f \in {"none", "title", "bringToFront"} :
    Handle(Call(AnId, "switch_tab", [BaseArgs EXCEPT !.targetTabName = t]),
           [BaseEng EXCEPT !.fault = f])

GetPageContent ==
  \E f \in {"none", "evaluate"} :
    Handle(Call(AnId, "get_page_content", BaseArgs),
           [BaseEng EXCEPT !.fault = f, !.paras = <<<<" ", "x">>, <<"x">>>>])

GetHtml ==
  \E f \in {"none", "content"} :
    Handle(Call(AnId, "get_html", BaseArgs), [BaseEng EXCEPT !.fault = f])

Search ==
  \E sb \in {[NoSearch EXCEPT !.passes = <<InputPass(SearchText, "absent")>>],
              [NoSearch EXCEPT !.backoff = 1],
              NoSearch},
     u \in Urls :
    Handle(Call(AnId, "search",
                [BaseArgs EXCEPT !.searchText = SearchText,
                                 !.retryAttempts = <<2>>]),
           [BaseEng EXCEPT !.landing = u, !.search = sb])

Fill ==
  \E f \in {"none", "waitFor", "act"} :
    Handle(Call(AnId, "fill", BaseArgs), [BaseEng EXCEPT !.fault = f])

Select ==
  \E f \in {"none", "waitFor", "act"} :
    Handle(Call(AnId, "select", BaseArgs), [BaseEng EXCEPT !.fault = f])

Hover ==
  \E f \in {"none", "waitFor", "act"} :
    Handle(Call(AnId, "hover", BaseArgs), [BaseEng EXCEPT !.fault = f])

Click ==
  \E nth \in {<<>>, <<1>>}, els \in SeqsUpTo({ElOk, ElDisabled}, 2),
     f \in {"none", "count"}, u \in Urls :
    \E rnd \in Rnds(els) :
      Handle(Call(AnId, "click", [BaseArgs EXCEPT !.nth = nth]),
             [BaseEng EXCEPT !.fault = f, !.els = els, !.rnd = rnd, !.landing = u])

(***************************************************************************)
(* What the browser and its user do on their own: a tab is closed, a tab   *)
(* is opened by hand in an existing context.                               *)
(***************************************************************************)
TabCloses ==
  \E p \in OpenPages(World) :
    /\ closed' = [closed EXCEPT ![p] = TRUE]
    /\ contexts' = [c \in 1..Len(contexts) |->
                      SelectSeq(contexts[c], LAMBDA q : q # p)]
    /\ UNCHANGED <<url, nextPage, trackerVars, serverVars, run, engine>>

TabOpens ==
  \E c \in 1..Len(contexts) :
    /\ InBounds(NewPage(World, c))
    /\ SetWorld(NewPage(World, c))
    /\ UNCHANGED <<calls, seen, lastRecorded, serverVars, run, engine>>

\* part_002:121  res.json(result) has reached the client
Deliver ==
  /\ response # NoResponse
  /\ request' = NoRequest
  /\ response' = NoResponse
  /\ run' = NoRun
  /\ UNCHANGED <<trackerVars, browserVars, httpOnlySession, engine>>

Next ==
  \/ Deliver
  \/ Initialize \/ NotifyInitialized \/ ToolsList \/ UnknownMethod
  \/ InvalidRequest \/ UnknownTool
  \/ Navigate \/ OpenNewTab \/ ReloadPage \/ GoBack \/ GoForward \/ SwitchTab
  \/ GetPageContent \/ GetHtml \/ Search \/ Fill \/ Select \/ Hover \/ Click
  \/ TabCloses \/ TabOpens

Spec == Init /\ [][Next]_vars

(***************************************************************************)
(* SpecOrder: updateRecentTabOrder called with arbitrary handles.  Handles *)
(* are opaque and compared by identity only (line 10), so handles never    *)
(* recorded before are interchangeable: a first recording takes the lowest *)
(* handle not yet used.                                                    *)
(***************************************************************************)
InitOrder ==
  /\ Init
  /\ contexts = <<>>

RecordAccess(tab) ==
  /\ calls < MaxCalls
  /\ tab <= seen + 1
  /\ recentTabOrder' = updateRecentTabOrder(recentTabOrder, tab)
  /\ calls' = calls + 1
  /\ seen' = IF tab > seen THEN tab ELSE seen
  /\ lastRecorded' = tab
  /\ UNCHANGED <<browserVars, serverVars, run, engine>>

NextOrder == \E tab \in 1..NumTabs : RecordAccess(tab)

SpecOrder == InitOrder /\ [][NextOrder]_vars

(***************************************************************************)
(* SpecClick: callClick(browser, selector, nth) called directly, once, on  *)
(* every DOM, nth and random draw within the bounds.                       *)
(***************************************************************************)
Nths == {<<>>} \cup {<<k>> : k \in (-1)..MaxCount}

ClickInputs ==
  UNION {{[a |-> [BaseArgs EXCEPT !.nth = nth],
           e |-> [BaseEng EXCEPT !.els = els, !.rnd = rnd, !.fault = f,
                                 !.landing = SiteA]] :
            nth \in Nths, rnd \in Rnds(els), f \in {"none", "count"}} :
         els \in SeqsUpTo(Elements, MaxCount)}

InitClick == InitServer /\ engine \in ClickInputs

DirectClick ==
  LET ran == callClick(World, engine.a, engine.e)
  IN  /\ run = NoRun
      /\ SetWorld(ran.w)
      /\ run' = [page |-> ran.page, out |-> ran.out, tool |-> "click"]
      /\ UNCHANGED <<calls, seen, lastRecorded, serverVars, engine>>

SpecClick == InitClick /\ [][DirectClick]_vars

(***************************************************************************)
(* SpecClickCall: the same inputs sent as one tools/call click request,    *)
(* through the route and handleToolCall (toolHandlers.ts:35-36).           *)
(***************************************************************************)
DispatchClick == Handle(Call(AnId, "click", engine.a), engine.e)

SpecClickCall == InitClick /\ [][DispatchClick \/ Deliver]_vars

(***************************************************************************)
(* SpecHistory: callGoBack / callGoForward called directly, once, with     *)
(* every options object and every history within the bounds: all short     *)
(* histories, and longer ones that alternate between two pages.            *)
(***************************************************************************)
StepsArgs == {<<>>} \cup {<<n>> : n \in 0..MaxSteps}

LongHistory(n) == [i \in 1..n |-> IF i % 2 = 1 THEN SiteB ELSE Blank]

Histories ==
  SeqsUpTo({Blank, SiteA, SiteB}, MaxHist)
    \cup {LongHistory(n) : n \in (MaxHist + 1)..LongHist}

HistoryInputs ==
  {[a |-> [BaseArgs EXCEPT !.steps = st, !.targetUrl = tu, !.targetTitle = tt],
    e |-> [BaseEng EXCEPT !.fault = f, !.failAt = k, !.hist = h]] :
     st \in StepsArgs, tu \in {"", "A.Test", "nope"}, tt \in {"", "b site"},
     f \in {"none", "title"}, k \in 0..2, h \in Histories}

InitHistory == InitServer /\ engine \in HistoryInputs

DirectGoBack ==
  LET ran == callGoBack(World, engine.a, engine.e)
  IN  /\ run = NoRun
      /\ SetWorld(ran.w)
      /\ run' = [page |-> ran.page, out |-> ran.out, tool |-> "go_back"]
      /\ UNCHANGED <<calls, seen, lastRecorded, serverVars, engine>>

DirectGoForward ==
  LET ran == callGoForward(World, engine.a, engine.e)
  IN  /\ run = NoRun
      /\ SetWorld(ran.w)
      /\ run' = [page |-> ran.page, out |-> ran.out, tool |-> "go_forward"]
      /\ UNCHANGED <<calls, seen, lastRecorded, serverVars, engine>>

SpecHistory == InitHistory /\ [][DirectGoBack \/ DirectGoForward]_vars

(***************************************************************************)
(* SpecSwitch: callSwitchTab called directly, again and again, on a        *)
(* browser attached with up to MaxTabs tabs open in its context.           *)
(***************************************************************************)
SwitchInputs ==
  {[a |-> [BaseArgs EXCEPT !.targetTabName = t],
    e |-> [BaseEng EXCEPT !.fault = f, !.failAt = k]] :
     t \in {"", "A.Test", "b site", "blank", "nope"},
     f \in {"none", "title", "bringToFront"}, k \in 0..2}

InitSwitch ==
  /\ recentTabOrder = <<>>
  /\ calls = 0
  /\ seen = 0
  /\ lastRecorded = None
  /\ \E n \in 0..MaxTabs :
       /\ contexts = <<[i \in 1..n |-> i]>>
       /\ url \in [1..n -> {Blank, SiteA, SiteB}]
       /\ closed = [i \in 1..n |-> FALSE]
       /\ nextPage = n + 1
  /\ httpOnlySession = "null"
  /\ request = NoRequest
  /\ response = NoResponse
  /\ run = NoRun
  /\ engine = Idle

DirectSwitchTab ==
  \E inp \in SwitchInputs :
    LET ran == callSwitchTab(World, inp.a, inp.e)
    IN  /\ run = NoRun
        /\ engine' = inp
        /\ SetWorld(ran.w)
        /\ run' = [page |-> ran.page, out |-> ran.out, tool |-> "switch_tab"]
        /\ UNCHANGED <<calls, seen, lastRecorded, serverVars>>

\* the caller has the Result; the next call can be made
Returned ==
  /\ run # NoRun
  /\ run' = NoRun
  /\ engine' = Idle
  /\ UNCHANGED <<trackerVars, browserVars, serverVars>>

SpecSwitch == InitSwitch /\ [][DirectSwitchTab \/ Returned]_vars

(***************************************************************************)
(* callSearch called directly, once, with its options and the engine's     *)
(* behaviour drawn at the start: every way the input-finding passes can go *)
(* with a few ways of submitting, and every way of submitting after the    *)
(* first selector verified at once.                                        *)
(***************************************************************************)
InputKinds == {"absent", "blocked", SearchText, "cat"}

PassKinds == {InputPass(f, l) : f \in InputKinds, l \in {"absent", SearchText}}

RetryOptions == {<<>>} \cup {<<n>> : n \in 0..MaxRetry}

SearchArgs(r) == [BaseArgs EXCEPT !.retryAttempts = r, !.searchText = SearchText]

FindingInputs ==
  {[a |-> SearchArgs(r),
    e |-> [BaseEng EXCEPT !.search = [sub EXCEPT !.passes = ps, !.backoff = b],
                          !.landing = SiteA]] :
     r \in RetryOptions, ps \in SeqsUpTo(PassKinds, MaxPasses), b \in 0..1,
     sub \in {NoSearch,
              [NoSearch EXCEPT !.buttons = <<ElOk>>, !.enter = "throws"],
              [NoSearch EXCEPT !.buttons = <<ElCovered, ElOk>>, !.counts = <<0, 1>>]}}

SubmitInputs ==
  {[a |-> [SearchArgs(<<>>) EXCEPT !.waitForNavigation = wn],
    e |-> [BaseEng EXCEPT !.search = [passes |-> <<InputPass(SearchText, "absent")>>,
                                      backoff |-> 0, buttons |-> bs,
                                      idle |-> idl, counts |-> <<c1, c2>>,
                                      enter |-> en],
                          !.landing = u]] :
     bs \in SeqsUpTo(Elements, MaxButtons), c1 \in {Throws, 0, 1},
     c2 \in {Throws, 0, 1}, en \in {"ok", "throws"}, u \in Urls,
     wn \in {<<>>, <<FALSE>>}, idl \in {"ok", "throws"}}

InitSearch == InitServer /\ engine \in FindingInputs \cup SubmitInputs

DirectSearch ==
  LET ran == callSearch(World, engine.a, engine.e)
  IN  /\ run = NoRun
      /\ SetWorld(ran.w)
      /\ run' = [page |-> ran.page, out |-> ran.out, tool |-> "search"]
      /\ UNCHANGED <<calls, seen, lastRecorded, serverVars, engine>>

SpecSearch == InitSearch /\ [][DirectSearch]_vars

(***************************************************************************)
(* callGetPageContent called directly, once, on every page of a few short  *)
(* paragraphs and on one longer page, with every maxParagraphLength up to   *)
(* the longest paragraph and with and without deduplication.                *)
(***************************************************************************)
TextChars == {" ", "x"}

Texts == SeqsUpTo(TextChars, MaxText)

\* a page with an empty paragraph, repeated ones and more than the
\* formatted text shows
LongPage == <<<<" ", "x">>, <<"x", "x">>, <<"x">>, <<" ">>, <<"x", " ">>,
              <<"x", "x">>, <<"x">>, <<"x", " ", "x">>>>

Pages == SeqsUpTo(Texts, MaxParas) \cup {LongPage}

ContentInputs ==
  {[a |-> [BaseArgs EXCEPT !.maxParagraphLength = m, !.deduplicateContent = d],
    e |-> [BaseEng EXCEPT !.paras = ps]] :
     m \in {<<>>} \cup {<<n>> : n \in 0..MaxText},
     d \in {<<>>, <<FALSE>>},
     ps \in Pages}

InitContent ==
  /\ InitServer
  /\ contexts # <<>> => url[1] = SiteA
  /\ engine \in ContentInputs

DirectGetPageContent ==
  LET ran == callGetPageContent(World, engine.a, engine.e)
  IN  /\ run = NoRun
      /\ SetWorld(ran.w)
      /\ run' = [page |-> ran.page, out |-> ran.out, tool |-> "get_page_content"]
      /\ UNCHANGED <<calls, seen, lastRecorded, serverVars, engine>>

SpecContent == InitContent /\ [][DirectGetPageContent]_vars

(***************************************************************************)
(* SpecLive: one tools/call, from its arrival to its response, followed    *)
(* through the loops of its executor, one step for each iteration.  While *)
(* the executor runs, run.out is its position: the loop it is at and that  *)
(* loop's counters.  Every engine call returns or times out, so a running  *)
(* executor always takes its next step (the fairness of SpecLive).         *)
(***************************************************************************)
Running(at, attempt, sel) ==
  [text |-> "", isError |-> FALSE, kind |-> "running", sel |-> sel,
   attempt |-> attempt, at |-> at]

Done == Running("done", 0, 0)

StuckIndex(i) == i

\* part_001:495, 902, 903, 1022, 1275  i++, attempt++ and the advance of
\* for...of
NextIndex(i) == i + 1

\* where the executor of tool starts: at its loop, or at its return when
\* it has no page to act on (part_001:456, 480, 590, 818, 1189)
StartOf(tool, w) ==
  IF tool \notin {"navigate", "open_new_tab", "switch_tab"}
     /\ getActivePage(w).page = None
  THEN Done
  ELSE CASE tool = "search" -> Running("passes", 0, 1)
         [] tool \in {"go_back", "go_forward"} -> Running("steps", 0, 0)
         [] OTHER -> Running("call", 0, 0)

\* the traversals the history loop of a call makes (part_001:516, 626)
StepsTaken(w, a, e) ==
  Len(HistoryLoop(0, MaxStepsOf(a), <<w.url[getActivePage(w).page]>>,
                  e.hist, a, e).trail) - 1

\* the positions one more step of the executor can lead to.  A loop is
\* left early where the engine's answers make the code break or return;
\* where the model of the engine does not settle that, both ways are open.
Successors(pos, tool, w, a, e) ==
  CASE pos.at = "passes" ->                                   \* part_001:902-946
         IF ~(pos.attempt < RetryAttemptsOf(a)) THEN {Done}
         ELSE IF pos.sel <= NumSearchSelectors
         THEN IF Verified(InputAt(e.search, pos.attempt, pos.sel), a.searchText)
              THEN {Running("enter", 0, 0)}                   \* line 929
              ELSE {Running("passes", pos.attempt, NextIndex(pos.sel))}
         ELSE IF /\ BackoffDue(pos.attempt, RetryAttemptsOf(a), FALSE)
                 /\ e.search.backoff = pos.attempt + 1        \* lines 944, 1076
         THEN {Done}
         ELSE {Running("passes", NextIndex(pos.attempt), 1)}
    [] pos.at = "enter" ->                                    \* part_001:965-1017
         {Done, Running("buttons", 0, 1)}
    [] pos.at = "buttons" ->                                  \* part_001:1022-1039
         IF pos.sel > NumSubmitSelectors THEN {Done}
         ELSE IF /\ ButtonUsable(ButtonAt(e.search, pos.sel))
                 /\ ButtonAt(e.search, pos.sel).hit           \* line 1034
         THEN {Done}
         ELSE {Running("buttons", 0, NextIndex(pos.sel))}
    [] pos.at = "steps" ->                                    \* part_001:495-547, 605-657
         IF ~(pos.sel < MaxStepsOf(a)) THEN {Done}
         ELSE IF pos.sel + 1 < StepsTaken(w, a, e)
         THEN {Running("steps", 0, NextIndex(pos.sel))}
         ELSE IF pos.sel + 1 = StepsTaken(w, a, e)
         THEN {Done, Running("steps", 0, NextIndex(pos.sel))}
         ELSE {Done}
    [] pos.at = "call" ->
         IF tool = "click" THEN {Done, Running("scan", 0, 0)} ELSE {Done}
    [] pos.at = "scan" ->                                     \* part_001:1275-1300
         IF ~(pos.sel < Len(e.els)) THEN {Done}
         ELSE IF e.els[pos.sel + 1].visible /\ e.els[pos.sel + 1].enabled
         THEN {Done, Running("scan", 0, NextIndex(pos.sel))}
         ELSE {Running("scan", 0, NextIndex(pos.sel))}
    [] OTHER -> {}

LiveInputs ==
  {[a |-> SearchArgs(r), e |-> [BaseEng EXCEPT !.search = sb], name |-> "search"] :
     r \in RetryOptions,
     sb \in {NoSearch,
             [NoSearch EXCEPT !.passes = <<InputPass("cat", "absent"),
                                           InputPass("absent", SearchText)>>,
                              !.buttons = <<ElCovered, ElOk>>],
             [NoSearch EXCEPT !.backoff = 1]}}
  \cup {[a |-> [BaseArgs EXCEPT !.steps = st, !.targetUrl = tu],
          e |-> [BaseEng EXCEPT !.hist = h], name |-> n] :
           n \in {"go_back", "go_forward"}, st \in StepsArgs, tu \in {"", "nope"},
           h \in {<<>>, LongHistory(MaxSteps)}}
  \cup {[a |-> BaseArgs, e |-> [BaseEng EXCEPT !.els = els], name |-> "click"] :
           els \in SeqsUpTo({ElOk, ElHidden}, MaxCount)}
  \cup {[a |-> [BaseArgs EXCEPT !.url = SiteA], e |-> BaseEng, name |-> n] :
           n \in {"navigate", "get_html", "reload_page"}}

\* part_002:20, 77-85  a tools/call arrives and its executor is started
Receive ==
  \E inp \in LiveInputs :
    /\ request = NoRequest
    /\ response = NoResponse
    /\ request' = Call(AnId, inp.name, inp.a)
    /\ engine' = [a |-> inp.a, e |-> inp.e]
    /\ run' = [page |-> None, out |-> StartOf(inp.name, World), tool |-> inp.name]
    /\ UNCHANGED <<trackerVars, browserVars, httpOnlySession, response>>

\* one iteration of the loop the executor is in
Advance ==
  /\ request # NoRequest
  /\ response = NoResponse
  /\ \E pos \in Successors(run.out, run.tool, World, engine.a, engine.e) :
        run' = [run EXCEPT !.out = pos]
  /\ UNCHANGED <<trackerVars, browserVars, serverVars, engine>>

\* part_002:85-121  the executor returns and res.json sends its result
Respond ==
  /\ request # NoRequest
  /\ run.out = Done
  /\ Handle(request, engine.e)

NextLive == Receive \/ Advance \/ Respond

\* when Respond can happen: the executor is at its return
RespondReady == request # NoRequest /\ response = NoResponse /\ run.out = Done

\* the executor has a step to take that moves it
AdvanceReady ==
  /\ request # NoRequest
  /\ response = NoResponse
  /\ \E pos \in Successors(run.out, run.tool, World, engine.a, engine.e) :
        pos # run.out

\* Weak fairness of Advance and of Respond, written out with AdvanceReady
\* and RespondReady for ENABLED <<Advance>>_vars and ENABLED <<Respond>>_vars.
SpecLive ==
  /\ Init
  /\ [][NextLive]_vars
  /\ ([]<>~AdvanceReady \/ []<><<Advance>>_vars)
  /\ ([]<>~RespondReady \/ []<><<Respond>>_vars)

(***************************************************************************)
(* browser.ts (part_003): initBrowser and what it calls.  The machine it   *)
(* runs on is e:                                                            *)
(*   ports      whether isPortInUse finds port 9222 taken, for the first    *)
(*              and for the second initializer called;                      *)
(*   readyFrom  the poll of the debugging endpoint, counted from the start   *)
(*              of initBrowser, from which it answers ok (0: never);        *)
(*   spawn      whether spawn returns (TRUE) or throws;                     *)
(*   connect    whether connectOverCDP resolves, for chrome and firefox;    *)
(*   webkit     whether webkit.launch resolves and WebKit gets ready.       *)
(* polled is the number of polls made so far.                               *)
(***************************************************************************)
Waited(ready, polled) == [ready |-> ready, polled |-> polled]

\* part_003:21-30  isBrowserDebuggingReady() at the poll after polled
isBrowserDebuggingReady(e, polled) ==
  e.readyFrom # 0 /\ polled + 1 >= e.readyFrom

PollsLeftAlways(i, maxAttempts) == i <= maxAttempts

\* part_003:33  i < maxAttempts
PollsLeft(i, maxAttempts) == i < maxAttempts

\* part_003:32-40  waitForBrowserReady(maxAttempts), from iteration i on
RECURSIVE PollLoop(_, _, _, _)
PollLoop(i, maxAttempts, e, polled) ==
  IF ~PollsLeft(i, maxAttempts) THEN Waited(FALSE, polled)     \* line 39
  ELSE IF isBrowserDebuggingReady(e, polled)
  THEN Waited(TRUE, polled + 1)                                \* line 35
  ELSE PollLoop(i + 1, maxAttempts, e, polled + 1)

waitForBrowserReady(maxAttempts, e, polled) == PollLoop(0, maxAttempts, e, polled)

\* what one initializer did: its name, whether it returned a browser and
\* the polls made when it ended
Initialized(name, ok, polled) == [ok |-> ok, name |-> name, polled |-> polled]

\* part_003:110-132, 134-156  initChromeSmartly / initFirefoxSmartly, as the
\* nth initializer called
initOverCDP(name, nth, e, polled) ==
  LET wait == waitForBrowserReady(ReadyAttempts, e, polled)
  IN  IF e.ports[nth]                                         \* line 111
      THEN IF ~isBrowserDebuggingReady(e, polled)
           THEN Initialized(name, FALSE, polled + 1)           \* line 113
           ELSE Initialized(name, e.connect[name], polled + 1)
      ELSE IF ~e.spawn THEN Initialized(name, FALSE, polled)   \* lines 82, 116
      ELSE IF ~wait.ready
      THEN Initialized(name, FALSE, wait.polled)              \* line 120
      ELSE Initialized(name, e.connect[name], wait.polled)    \* lines 124-130

\* part_003:158-175  initWebKitSmartly
initWebKitSmartly(e, polled) == Initialized("webkit", e.webkit, polled)

FallbackAlways(browserType) == TRUE

\* part_003:193  browserType !== 'chrome'
Fallback(browserType) == browserType # "chrome"

\* what initBrowser settles to: a browser or a rejection, and the
\* initializers it called, in order
Launch(kind, browser, trace) == [kind |-> kind, trace |-> trace, browser |-> browser]

\* part_003:177-198  initBrowser(browserType)
initBrowser(browserType, e) ==
  LET first == CASE browserType = "chrome"  -> <<initOverCDP("chrome", 1, e, 0)>>
                 [] browserType = "firefox" -> <<initOverCDP("firefox", 1, e, 0)>>
                 [] browserType = "webkit"  -> <<initWebKitSmartly(e, 0)>>
                 [] OTHER                   -> <<>>             \* line 190
      polled == IF first = <<>> THEN 0 ELSE first[1].polled
      nth == Len(first) + 1
      again == initOverCDP("chrome", nth, e, polled)
  IN  IF first # <<>> /\ first[1].ok
      THEN Launch("browser", first[1].name, first)
      ELSE IF Fallback(browserType)                            \* line 193
      THEN Launch(IF again.ok THEN "browser" ELSE "throw", "chrome",
                  Append(first, again))                        \* line 194
      ELSE Launch("throw", "none", first)                      \* line 196

(***************************************************************************)
(* SpecInit: initBrowser called once with every browser type (one of them  *)
(* unsupported) on every machine, and waitForBrowserReady called directly   *)
(* with every maxAttempts up to MaxAttempts.                                *)
(***************************************************************************)
Machines ==
  {[readyFrom |-> r, maxAttempts |-> m, ports |-> ports,
    connect |-> [chrome |-> c, firefox |-> f], spawn |-> sp, webkit |-> wk,
    browserType |-> b] :
     b \in {"chrome", "firefox", "webkit", "opera"}, m \in 0..MaxAttempts,
     ports \in {<<x, y>> : x \in BOOLEAN, y \in BOOLEAN}, r \in 0..MaxReadyFrom,
     sp \in BOOLEAN, c \in BOOLEAN, f \in BOOLEAN, wk \in BOOLEAN}

InitInit ==
  /\ recentTabOrder = <<>>
  /\ calls = 0
  /\ seen = 0
  /\ lastRecorded = None
  /\ contexts = <<>>
  /\ url = <<>>
  /\ closed = <<>>
  /\ nextPage = 1
  /\ httpOnlySession = "null"
  /\ request = NoRequest
  /\ response = NoResponse
  /\ run = NoRun
  /\ engine \in Machines

DirectInitBrowser ==
  /\ run = NoRun
  /\ run' = [page |-> None, out |-> initBrowser(engine.browserType, engine),
             tool |-> "initBrowser"]
  /\ UNCHANGED <<trackerVars, browserVars, serverVars, engine>>

DirectWaitForBrowserReady ==
  /\ run = NoRun
  /\ run' = [page |-> None,
             out |-> waitForBrowserReady(engine.maxAttempts, engine, 0),
             tool |-> "waitForBrowserReady"]
  /\ UNCHANGED <<trackerVars, browserVars, serverVars, engine>>

SpecInit == InitInit /\ [][DirectInitBrowser \/ DirectWaitForBrowserReady]_vars

(***************************************************************************)
(* SpecDispatch: tools/call requests under every name handleToolCall has a *)
(* case for and under other names (a name in another case, a method name,   *)
(* the name of the unexposed TakeScreenshot helper, no name), one at a      *)
(* time, with a few arguments and engine behaviours.                        *)
(***************************************************************************)
\* toolHandlers.ts:11-36  the case labels of handleToolCall
CaseLabels ==
  {"navigate", "open_new_tab", "reload_page", "go_back", "go_forward",
   "switch_tab", "get_page_content", "get_html", "search", "fill", "select",
   "hover", "click"}

DispatchNames ==
  CaseLabels \cup {"Navigate", "tools/list", "take_screenshot", Undefined}

DispatchInputs ==
  {[a |-> [BaseArgs EXCEPT !.url = SiteA, !.targetTabName = t, !.nth = nth],
    e |-> [BaseEng EXCEPT !.fault = f, !.kb = kb, !.hist = <<SiteA>>,
                          !.landing = SiteA, !.els = els]] :
     t \in {"nope", "A.Test"}, nth \in {<<>>, <<1>>}, f \in {"none", "goto"},
     kb \in {"nothing", "newtab"}, els \in {<<>>, <<ElOk, ElOk>>}}

InitDispatch == InitServer /\ engine \in DispatchInputs

DispatchCall ==
  \E name \in DispatchNames : Handle(Call(AnId, name, engine.a), engine.e)

SpecDispatch == InitDispatch /\ [][DispatchCall \/ Deliver]_vars

(***************************************************************************)
(* SpecConc: requests handled concurrently.  express starts a handler for  *)
(* every request that arrives; a handler runs until it awaits an           *)
(* automation call and goes on when that call has settled, other handlers  *)
(* running in between.  getActivePage and updateRecentTabOrder contain no   *)
(* await (part_001:7-64): each runs to its end within one step.  Here run   *)
(* holds one entry for every handler, of the shape run has elsewhere; a     *)
(* suspended handler's out is Acting(at, acted, active), acted being the    *)
(* pages its automation calls so far were made on and active the page       *)
(* getActivePage would have returned at the latest of them.  get_html       *)
(* stands for the executors that begin with getActivePage and record        *)
(* nothing.  The browser is either                                          *)
(* launched empty or attached with one tab more than the list holds, all    *)
(* but the last on one site, the list full of the first ten handles (the    *)
(* state after ten switch_tab calls).                                       *)
(***************************************************************************)
Procs == 1..MaxInflight

ConcTabs == RecentCapacity + 1

Acting(at, acted, active) ==
  [text |-> "", isError |-> FALSE, kind |-> "running", at |-> at,
   acted |-> acted, active |-> active]

Acted(text, isError) == [text |-> text, isError |-> isError, kind |-> "result"]

InitConc ==
  /\ calls = 0
  /\ seen = 0
  /\ lastRecorded = None
  /\ httpOnlySession = "null"
  /\ request = NoRequest
  /\ response = NoResponse
  /\ engine = Idle
  /\ run = [p \in Procs |-> NoRun]
  /\ \/ /\ contexts = <<>>
        /\ url = <<>>
        /\ closed = <<>>
        /\ nextPage = 1
        /\ recentTabOrder = <<>>
     \/ /\ contexts = << [i \in 1..ConcTabs |-> i] >>
        /\ url = [i \in 1..ConcTabs |-> IF i = ConcTabs THEN SiteB ELSE SiteA]
        /\ closed = [i \in 1..ConcTabs |-> FALSE]
        /\ nextPage = ConcTabs + 1
        /\ recentTabOrder = [i \in 1..RecentCapacity |-> i]

\* the automation calls an executor awaits on its page, at most
ActsOf(tool) == IF tool \in {"navigate", "switch_tab"} THEN 1 ELSE MaxActs

TargetResolvedAgain(w, page) == getActivePage(w).page

\* part_001:478, 816, 1187, ...  const page = await getActivePage(browser):
\* the page every later call of the executor is made on
TargetOf(w, page) == page

UnshiftAtResume(order, page) == UpdateNoFilter(order, page)

\* part_001:178, 752  updateRecentTabOrder(page) after the awaited call
RecordAtResume(order, page) == updateRecentTabOrder(order, page)

\* part_001:170, 478, ...  an executor that starts with getActivePage runs
\* up to its first awaited automation call
BeginOnActive(p, tool) ==
  LET g == getActivePage(World)
  IN  /\ run[p] = NoRun
      /\ SetWorld(g.w)
      /\ run' = [run EXCEPT ![p] =
                   [page |-> g.page,
                    out  |-> IF g.page # None THEN Acting("acting", <<>>, None)
                             ELSE IF tool = "navigate"
                             THEN Acting("creating", <<>>, None)     \* line 173
                             ELSE Acted("No active page", TRUE),
                    tool |-> tool]]
      /\ UNCHANGED <<calls, seen, lastRecorded, serverVars, engine>>

\* part_001:697-751  callSwitchTab up to the awaited bringToFront
BeginSwitch(p, name) ==
  LET tabInfo == getAllTabs(World, BaseEng)
      hits == {i \in 1..Len(tabInfo) : TabMatches(World, tabInfo[i], name)}
  IN  /\ run[p] = NoRun
      /\ run' = [run EXCEPT ![p] =
                   IF hits = {}
                   THEN [page |-> None, out |-> Acted("Tab not found", TRUE),
                         tool |-> "switch_tab"]
                   ELSE [page |-> tabInfo[CHOOSE i \in hits : \A j \in hits : i <= j],
                         out |-> Acting("acting", <<>>, None), tool |-> "switch_tab"]]
      /\ UNCHANGED <<trackerVars, browserVars, serverVars, engine>>

\* part_001:173-174  newContext and newPage have settled
Create(p) ==
  LET w1 == NewContext(World)
      w2 == NewPage(w1, Len(w1.contexts))
  IN  /\ run[p].out.kind = "running"
      /\ run[p].out.at = "creating"
      /\ InBounds(w2)
      /\ SetWorld(w2)
      /\ run' = [run EXCEPT ![p].page = w1.nextPage,
                            ![p].out = Acting("acting", <<>>, None)]
      /\ UNCHANGED <<calls, seen, lastRecorded, serverVars, engine>>

\* one awaited automation call on the executor's page has settled
\* (navigate: page.goto, line 177)
Act(p) ==
  /\ run[p].out.kind = "running"
  /\ run[p].out.at = "acting"
  /\ Len(run[p].out.acted) < ActsOf(run[p].tool)
  /\ run' = [run EXCEPT ![p].out =
               Acting("acting", Append(@.acted, TargetOf(World, run[p].page)),
                      getActivePage(World).page)]
  /\ IF run[p].tool = "navigate"
     THEN url' = [url EXCEPT ![run[p].page] = SiteA]
     ELSE UNCHANGED url
  /\ UNCHANGED <<trackerVars, contexts, closed, nextPage, serverVars, engine>>

\* the executor runs from its last awaited call to its return
Finish(p) ==
  /\ run[p].out.kind = "running"
  /\ run[p].out.at = "acting"
  /\ run[p].out.acted # <<>>
  /\ recentTabOrder' = IF run[p].tool \in {"navigate", "switch_tab"}
                       THEN RecordAtResume(recentTabOrder, run[p].page)
                       ELSE recentTabOrder
  /\ run' = [run EXCEPT ![p].out = Acted("done", FALSE)]
  /\ UNCHANGED <<calls, seen, lastRecorded, browserVars, serverVars, engine>>

\* part_002:121  res.json(result): the handler is gone
Answer(p) ==
  /\ run[p].out.kind = "result"
  /\ run[p] # NoRun
  /\ run' = [run EXCEPT ![p] = NoRun]
  /\ UNCHANGED <<trackerVars, browserVars, serverVars, engine>>

NextConc ==
  \E p \in Procs :
    \/ \E tool \in {"navigate", "get_html"} : BeginOnActive(p, tool)
    \/ \E name \in {"A.Test", "b site", "nope"} : BeginSwitch(p, name)
    \/ Create(p)
    \/ Act(p)
    \/ Finish(p)
    \/ Answer(p)

SpecConc == InitConc /\ [][NextConc]_vars

(***************************************************************************)
(* The properties.                                                         *)
(***************************************************************************)
NoDuplicates(s) == \A i, j \in 1..Len(s) : i # j => s[i] # s[j]

\* C1: after any sequence of updateRecentTabOrder calls the recency list
\* holds no tab twice, has at most 10 entries, and its first entry is the
\* tab passed to the most recent call.
C1_RecencyInvariant ==
  /\ NoDuplicates(recentTabOrder)
  /\ Len(recentTabOrder) <= 10
  /\ calls > 0 => /\ recentTabOrder # <<>>
                  /\ Head(recentTabOrder) = lastRecorded

\* C1 witness: an eleventh tab was recorded into a full list, and then a
\* tab already in the list was recorded again.
C1_Witness ==
  /\ seen = 11
  /\ calls = 12
  /\ Len(recentTabOrder) = 10
  /\ lastRecorded < 11

OpenNow == {p \in Range(Flatten(contexts)) : ~closed[p]}

OpenNonBlank == {p \in OpenNow : url[p] # "about:blank"}

\* C2: in every state where some open page exists in some context,
\* getActivePage returns an open page, whatever the recency list holds.
C2_OpenPageResolved ==
  OpenNow # {} => getActivePage(World).page \in OpenNow

\* C3: with no open page getActivePage returns none; when exactly one open
\* page is not blank it returns that page, whatever the recency list holds.
C3_EmptyAndSingle ==
  /\ OpenNow = {} => getActivePage(World).page = None
  /\ \A p \in OpenNonBlank :
       OpenNonBlank = {p} => getActivePage(World).page = p

\* C3 witness: get_html ran on the only non-blank open page while a closed
\* tab stood ahead of it in the recency list.
C3_Witness ==
  /\ run.tool = "get_html"
  /\ run.out.kind = "result"
  /\ OpenNonBlank = {run.page}
  /\ Len(recentTabOrder) = 2
  /\ closed[recentTabOrder[1]]
  /\ recentTabOrder[2] = run.page

\* C4: when the recency list holds an open non-blank tab, getActivePage
\* returns the one nearest the front, skipping closed and blank entries,
\* without reading the browser's contexts.
C4_NearestRecent ==
  \A i \in 1..Len(recentTabOrder) :
    (/\ recentTabOrder[i] \in OpenNonBlank
     /\ \A j \in 1..(i - 1) : recentTabOrder[j] \notin OpenNonBlank)
    => /\ getActivePage(World).page = recentTabOrder[i]
       /\ ~getActivePage(World).enumerated
       /\ getActivePage(World).w.order = recentTabOrder

\* C4 witness: reload_page ran on the second entry of the recency list,
\* the first being open but blank.
C4_Witness ==
  /\ run.tool = "reload_page"
  /\ Len(recentTabOrder) = 2
  /\ recentTabOrder[1] \in OpenNow
  /\ url[recentTabOrder[1]] = "about:blank"
  /\ recentTabOrder[2] \in OpenNonBlank
  /\ run.page = recentTabOrder[2]

\* C5: no executor of the catalog propagates an exception: whatever
\* automation call fails, the executor returns a Result.
C5_NoExecutorThrows ==
  run.tool \in Range(toolsList) => run.out.kind = "result"

\* C6: the response to a tools/call whose executor returned carries the
\* executor's isError beside the content.
C6_ResponseCarriesIsError ==
  (request.method = "tools/call" /\ run.out.kind = "result")
  => /\ DOMAIN response.body.result = {"content", "isError"}
     /\ response.body.result.isError = run.out.isError

Answered == response # NoResponse

\* C7: an unknown tool yields -32603 with the tool name and arguments as
\* data, an unknown method -32601, a body without a method -32600; none is
\* an HTTP 5xx and each response echoes the id the request carried.
C7_ProtocolErrors ==
  Answered =>
    /\ (request.method = "tools/call" /\ request.name \notin Range(toolsList))
       => /\ response.body.error.code = -32603
          /\ response.body.error.data =
               [toolName |-> request.name, arguments |-> request.a]
    /\ request.method = "resources/list" => response.body.error.code = -32601
    /\ request.method = "undefined" => response.body.error.code = -32600
    /\ response.status < 500
    /\ (/\ "error" \in DOMAIN response.body
        /\ request.id # "undefined") => response.body.id = request.id

\* C8 as stated: tools/list returns a catalog of exactly 12 operations.
C8_TwelveOperations ==
  request.method = "tools/list" =>
    Cardinality(Range(response.body.result.tools)) = 12

\* C8 as amended: tools/list returns the same catalog of exactly 13
\* operations on every call, whatever the session state and whatever
\* requests came before.
C8_FixedCatalog ==
  request.method = "tools/list" =>
    /\ response.status = 200
    /\ "result" \in DOMAIN response.body
    /\ response.body.result.tools =
         <<"navigate", "open_new_tab", "reload_page", "go_back", "go_forward",
           "switch_tab", "search", "get_page_content", "get_html", "fill",
           "select", "hover", "click">>
    /\ Cardinality(Range(response.body.result.tools)) = 13

\* C8 witness: tools/list answered in a session that initialize opened and
\* nothing completed, after tool calls that opened a page and recorded it.
C8_Witness ==
  /\ request.method = "tools/list"
  /\ Answered
  /\ httpOnlySession = "uninitialized"
  /\ recentTabOrder # <<>>

ClickRan == run.tool = "click" /\ run.page # None /\ engine.e.fault = "none"

\* C9: click on a selector matching no element fails and clicks nothing;
\* on a selector matching one element it succeeds, clicking it, exactly
\* when that element is visible, enabled and takes the click.
C9_ClickZeroOrOne ==
  ClickRan =>
    /\ Len(engine.e.els) = 0 => run.out.isError /\ run.out.clicks = <<>>
    /\ Len(engine.e.els) = 1 =>
         LET el == engine.e.els[1]
         IN  IF el.visible /\ el.enabled /\ el.hit
             THEN ~run.out.isError /\ run.out.clicks = <<0>>
             ELSE run.out.isError /\ run.out.clicks = <<>>

\* C9 witness: a single visible and enabled element was clicked.
C9_Witness ==
  /\ ClickRan
  /\ Len(engine.e.els) = 1
  /\ ~run.out.isError
  /\ run.out.clicks = <<0>>

NthOutOfRange ==
  /\ engine.a.nth # <<>>
  /\ (engine.a.nth[1] < 0 \/ engine.a.nth[1] >= Len(engine.e.els))

NamesRange ==
  /\ run.out.isError
  /\ run.out.rangeLo = 0
  /\ run.out.rangeHi = Len(engine.e.els) - 1
  /\ run.out.clicks = <<>>

\* C10 as stated: callClick with an explicit nth outside [0,count) fails
\* with a message naming the valid range and clicks nothing, for every
\* count, 0 and 1 included.
C10_RangeForEveryCount ==
  (ClickRan /\ NthOutOfRange) => NamesRange

\* C10 as amended: the same, for every count greater than 1.
C10_RangeForSeveral ==
  (ClickRan /\ NthOutOfRange /\ Len(engine.e.els) > 1) => NamesRange

\* C10 witness: three elements matched and nth = 3 was refused.
C10_Witness ==
  /\ ClickRan
  /\ Len(engine.e.els) = 3
  /\ engine.a.nth = <<3>>
  /\ NamesRange

ExplicitAmongSeveral ==
  /\ run.tool = "click"
  /\ run.page # None
  /\ engine.a.nth # <<>>
  /\ Len(engine.e.els) > 1

\* C11: a click that supplies an explicit index against a selector
\* matching more than one element clicks the element at that index or
\* nothing, both when callClick is called directly and when the request
\* goes through tools/call and handleToolCall.
C11_ExplicitIndexOnly ==
  ExplicitAmongSeveral => run.out.clicks \in {<<>>, engine.a.nth}

RandomAmongSeveral ==
  /\ ClickRan
  /\ engine.a.nth = <<>>
  /\ Len(engine.e.els) > 1

Clickable == {i \in 0..(Len(engine.e.els) - 1) :
                engine.e.els[i + 1].visible /\ engine.e.els[i + 1].enabled}

\* C12: click with several matches and no index clicks the drawn element
\* when it is visible and enabled; otherwise it clicks the lowest-index
\* visible and enabled match, reported as a fallback; when no match is
\* visible and enabled it fails without clicking.
C12_RandomThenLowest ==
  RandomAmongSeveral =>
    /\ engine.e.rnd \in Clickable =>
          ~run.out.isError /\ run.out.clicks = <<engine.e.rnd>>
    /\ (engine.e.rnd \notin Clickable /\ Clickable # {}) =>
          /\ ~run.out.isError
          /\ run.out.how = "fallback"
          /\ \E i \in Clickable : /\ run.out.clicks = <<i>>
                                   /\ \A j \in Clickable : i <= j
    /\ Clickable = {} => run.out.isError /\ run.out.clicks = <<>>

\* C13: every successful click result names the index of the element
\* clicked and how it was selected, on every success path: the single
\* element, the explicit nth, the random target and both fallbacks.
C13_SuccessNamesIndex ==
  (ClickRan /\ ~run.out.isError) =>
    /\ run.out.clicks = <<run.out.index>>
    /\ run.out.how \in {"specified nth", "randomly selected", "fallback"}

HistoryRan == run.tool \in {"go_back", "go_forward"} /\ run.page # None

Traversals == Len(run.out.trail) - 1

\* a traversal was made after a step that left the url unchanged
WentOnAfterUnchanged ==
  \E k \in 2..(Len(run.out.trail) - 1) : run.out.trail[k] = run.out.trail[k - 1]

\* C14: go_back and go_forward with a step count N and no target make at
\* most N traversals, for every N including 0, and none after the first
\* step that leaves the url unchanged.
C14_AtMostNSteps ==
  (/\ HistoryRan
   /\ engine.a.steps # <<>>
   /\ engine.a.targetUrl = "" /\ engine.a.targetTitle = "")
  => /\ Traversals <= engine.a.steps[1]
     /\ ~WentOnAfterUnchanged

\* the page at url u contains the target, compared without regard to case
ContainsTarget(u) ==
  \/ /\ engine.a.targetUrl # ""
     /\ Includes(ToLowerCase(u), ToLowerCase(engine.a.targetUrl))
  \/ /\ engine.a.targetTitle # ""
     /\ Includes(ToLowerCase(TitleOf(u)), ToLowerCase(engine.a.targetTitle))

\* C15: go_back and go_forward with a target and no step count make at
\* most 10 traversals (1 when there is no target either), none when the
\* page they start on contains the target, and none after the first step
\* that lands on a page whose url or title contains it, case ignored.
C15_TargetSearch ==
  (HistoryRan /\ engine.a.steps = <<>>) =>
    /\ Traversals <= IF engine.a.targetUrl # "" \/ engine.a.targetTitle # ""
                     THEN 10 ELSE 1
    /\ \A k \in 1..(Len(run.out.trail) - 1) : ~ContainsTarget(run.out.trail[k])

\* C15 witness: the target was never met and the tenth traversal was the
\* last, with more history ahead.
C15_Witness ==
  /\ HistoryRan
  /\ engine.a.steps = <<>>
  /\ engine.a.targetUrl = "nope"
  /\ Len(engine.e.hist) > 10
  /\ Traversals = 10

\* the enumerated tabs whose title or url contains the argument of the
\* call being made, case ignored, by their place in the enumeration
MatchingTabs ==
  LET tabs == getAllTabs(World, engine'.e)
      t    == ToLowerCase(engine'.a.targetTabName)
  IN  {i \in 1..Len(tabs) :
         \/ Includes(ToLowerCase(TitleOf(url[tabs[i]])), t)
         \/ Includes(ToLowerCase(url[tabs[i]]), t)}

SwitchesToLowestMatch ==
  LET tabs == getAllTabs(World, engine'.e)
  IN  \E i \in MatchingTabs :
        /\ \A j \in MatchingTabs : i <= j
        /\ ~run'.out.isError
        /\ run'.page = tabs[i]
        /\ recentTabOrder' = updateRecentTabOrder(recentTabOrder, tabs[i])

ListsAllUnchanged(isError) ==
  /\ run'.out.isError = isError
  /\ run'.out.tabs = getAllTabs(World, engine'.e)
  /\ recentTabOrder' = recentTabOrder

SwitchCall == run'.tool = "switch_tab" /\ engine'.e.fault # "bringToFront"

\* C16 as stated: switch_tab with no argument succeeds, listing every
\* enumerated tab and switching nothing; with an argument it brings to
\* front and records the lowest-index tab whose title or url contains it,
\* case ignored; when no tab matches it fails, listing all tabs, and the
\* recency list is unchanged.
C16_SwitchTabStep ==
  SwitchCall =>
    IF engine'.a.targetTabName = "" THEN ListsAllUnchanged(FALSE)
    ELSE IF MatchingTabs # {} THEN SwitchesToLowestMatch
    ELSE ListsAllUnchanged(TRUE)

C16_SwitchTabSomeStep ==
  SwitchCall =>
    IF getAllTabs(World, engine'.e) = <<>> THEN ListsAllUnchanged(TRUE)
    ELSE IF engine'.a.targetTabName = "" THEN ListsAllUnchanged(FALSE)
    ELSE IF MatchingTabs # {} THEN SwitchesToLowestMatch
    ELSE ListsAllUnchanged(TRUE)

SearchRan == run.tool = "search" /\ run.page # None

At(ops) == {i \in DOMAIN run.out.trace : run.out.trace[i].op \in ops}

Submissions == At({"enter", "click"})

VerifiedReads ==
  {i \in At({"read"}) : run.out.trace[i].val = engine.a.searchText}

\* C17: no Enter press and no submit-button click happens in a search
\* unless an earlier step read the input's value back and found it equal
\* to the search text; when no read ever finds it equal the search fails
\* and submits nothing.
C17_VerifiedBeforeSubmit ==
  SearchRan =>
    /\ \A i \in Submissions : \E j \in VerifiedReads : j < i
    /\ VerifiedReads = {} => run.out.isError /\ Submissions = {}

\* C17 witness: the first selector's input held another text after typing,
\* a later one the search text, and Enter was pressed after that.
C17_Witness ==
  /\ SearchRan
  /\ \E i \in At({"read"}), j \in VerifiedReads, k \in At({"enter"}) :
        i < j /\ j < k /\ run.out.trace[i].val = "cat"


PassesRun == {run.out.trace[i].sel : i \in At({"pass"})}

Backoffs == {run.out.trace[i].sel : i \in At({"backoff"})}

\* the passes in which no selector verified
FailedPasses ==
  {p \in PassesRun :
     \A k \in 1..NumSearchSelectors :
       InputAt(engine.e.search, p, k) # engine.a.searchText}

SearchFailed == run.out.text = "Failed to find accessible search bar"

\* one failure for every selector of every one of the n passes, in order
EverySelectorFailed(errors, n) ==
  /\ Len(errors) = n * NumSearchSelectors
  /\ \A i \in DOMAIN errors :
       /\ errors[i].attempt = (i - 1) \div NumSearchSelectors
       /\ errors[i].sel = ((i - 1) % NumSearchSelectors) + 1

\* C18: the input-finding phase of a search makes at most retryAttempts
\* passes over the selector list; it waits the backoff after a failed pass
\* exactly when that pass is not the last of the retryAttempts, and the
\* next pass follows the wait; it stops at the first selector that
\* verifies; it reports "Failed to find accessible search bar" only when
\* every selector failed in every one of the retryAttempts passes, and the
\* message then shows the last errors collected, 5 at most.
C18_RetryPasses ==
  SearchRan =>
    /\ Cardinality(At({"pass"})) <= RetryAttemptsOf(engine.a)
    /\ Backoffs = {p \in FailedPasses : p < RetryAttemptsOf(engine.a) - 1}
    /\ \A i \in At({"backoff"}) :
         run.out.trace[i].val = "ok" =>
           /\ i + 1 \in At({"pass"})
           /\ run.out.trace[i + 1].sel = run.out.trace[i].sel + 1
    /\ \A j \in VerifiedReads :
         /\ \A i \in At({"pass", "read", "backoff"}) : i <= j
         /\ \A k \in 1..(run.out.trace[j].sel - 1), p \in PassesRun :
              (\A q \in PassesRun : q <= p) =>
                InputAt(engine.e.search, p, k) # engine.a.searchText
    /\ SearchFailed =>
         /\ EverySelectorFailed(run.out.errors, RetryAttemptsOf(engine.a))
         /\ Len(run.out.shown) <= ShownErrors
         /\ \A i \in DOMAIN run.out.shown :
              run.out.shown[i] =
                run.out.errors[Len(run.out.errors) - Len(run.out.shown) + i]
         /\ Len(run.out.errors) >= ShownErrors => Len(run.out.shown) = ShownErrors

\* C18 witness: two passes found nothing that verified, with one backoff
\* between them and none after the second, and the failure shows 5 of the
\* 48 errors.
C18_Witness ==
  /\ SearchRan
  /\ SearchFailed
  /\ PassesRun = {0, 1}
  /\ Backoffs = {0}
  /\ Len(run.out.errors) = 2 * NumSearchSelectors
  /\ Len(run.out.shown) = ShownErrors

TypedOk == VerifiedReads # {}

\* the search finished with the Enter key as its submit method
DoneByEnter ==
  /\ ~run.out.isError
  /\ run.out.report # <<>>
  /\ run.out.report[1].submitMethod = "Enter key"

\* Enter went through and, after it, the page's url is not the one read
\* just before it or the page has at least one result element
SubmittedByEnter ==
  \E i \in At({"enter"}) :
    /\ run.out.trace[i].val = "ok"
    /\ \/ engine.e.landing # run.out.trace[i - 1].val
       \/ engine.e.search.counts[1] > 0

FallbackReached == At({"fallback"}) # {}

\* C19: after typing succeeded a search presses Enter exactly once; it
\* finishes with submit method "Enter key" exactly when, after the press,
\* the url differs from the one captured before it or the result elements
\* number more than 0, and then no submit button is clicked; otherwise it
\* goes on to the button fallback.
C19_EnterJudgement ==
  SearchRan /\ TypedOk =>
    /\ Cardinality(At({"enter"})) = 1
    /\ DoneByEnter <=> SubmittedByEnter
    /\ DoneByEnter => At({"click"}) = {}
    /\ ~DoneByEnter => FallbackReached

\* the submit selectors that resolve to a visible and enabled element
VisibleEnabledButtons ==
  {k \in 1..NumSubmitSelectors :
     /\ ButtonAt(engine.e.search, k).visible
     /\ ButtonAt(engine.e.search, k).enabled}

\* those of them whose click goes through
ClickableButtons ==
  {k \in VisibleEnabledButtons : ButtonAt(engine.e.search, k).hit}

ClicksOk == {i \in At({"click"}) : run.out.trace[i].val = "ok"}

Lowest(S, k) == k \in S /\ \A j \in S : k <= j

\* with no call outside the per-selector guard throwing, the result is not
\* an error, names the Enter key when no click went through and carries
\* the five fields
ReportsDone ==
  engine.e.search.counts[2] # Throws =>
    /\ ~run.out.isError
    /\ run.out.report # <<>>
    /\ ClicksOk = {} => run.out.report[1].submitMethod = "Enter key (no button found)"
    /\ {"used", "submitMethod", "urlChanged", "finalUrl", "hasSearchResults"}
         \subseteq DOMAIN run.out.report[1]

\* C20 as stated: in the button fallback a search clicks at most one
\* button, the first in priority order that is visible and enabled; with
\* no call outside the per-selector guard throwing it returns a non-error
\* result whether or not a button matched, naming the Enter key when none
\* did, with selector used, submit method, url-changed flag, final url and
\* results-found flag.
C20_ButtonFallback ==
  SearchRan /\ FallbackReached =>
    /\ Cardinality(At({"click"})) <= 1
    /\ \A i \in At({"click"}) : Lowest(VisibleEnabledButtons, run.out.trace[i].sel)
    /\ VisibleEnabledButtons # {} => At({"click"}) # {}
    /\ ReportsDone

\* C20 as amended: the fallback tries the visible and enabled buttons in
\* priority order, going on to the next when a click throws, so that at
\* most one click goes through, on the first such button whose click does
\* not throw; the rest as stated.
C20_ButtonFallbackSkipsThrowing ==
  SearchRan /\ FallbackReached =>
    /\ Cardinality(ClicksOk) <= 1
    /\ \A i \in ClicksOk : Lowest(ClickableButtons, run.out.trace[i].sel)
    /\ ClickableButtons # {} => ClicksOk # {}
    /\ {run.out.trace[i].sel : i \in At({"click"})} =
         {k \in VisibleEnabledButtons : \A j \in ClickableButtons : k <= j}
    /\ ReportsDone

\* C20 witness: the click on the first submit button threw, the click on
\* the second went through and the search reports the button.
C20_Witness ==
  /\ SearchRan
  /\ FallbackReached
  /\ {run.out.trace[i].sel : i \in At({"click"})} = {1, 2}
  /\ \E i \in ClicksOk : run.out.trace[i].sel = 2
  /\ ~run.out.isError
  /\ run.out.report[1].button = 2

\* the waits made between position i of the trace and the next reading of
\* the url, in order
WaitsAfter(i) ==
  LET t == run.out.trace
      n == CHOOSE j \in At({"url"}) : j > i /\ \A k \in At({"url"}) : k > i => j <= k
  IN  [k \in 1..(n - i - 1) |-> t[i + k].op]

\* the waits required after a submission: network-idle, then the fixed
\* delay if that timed out, when waitForNavigation; else the fixed delay
RequiredWaits ==
  IF WaitForNavigationOf(engine.a)
  THEN IF engine.e.search.idle = "throws" THEN <<"idle", "delay">> ELSE <<"idle">>
  ELSE <<"delay">>

\* C21: after a submit button's click in the button fallback a search
\* waits, before it reads the url and the results, as it does after Enter:
\* for network-idle when waitForNavigation is true, for the fixed delay
\* when it is false.
C21_WaitAfterButton ==
  SearchRan =>
    \A i \in ClicksOk \cup {j \in At({"enter"}) : run.out.trace[j].val = "ok"} :
      WaitsAfter(i) = RequiredWaits

\* a step in which the executor of tool ran to answer a tools/call
Executes(tool) ==
  /\ response = NoResponse
  /\ response' # NoResponse
  /\ run'.tool = tool

Succeeds == run'.out.kind = "result" /\ ~run'.out.isError

\* the handles of the pages that exist, open or closed
Existing == 1..(nextPage - 1)

C22_FreshTabStep ==
  Executes("open_new_tab") /\ Succeeds =>
    /\ run'.page \notin Existing
    /\ run'.page # getActivePage(World).page
    /\ recentTabOrder'[1] = run'.page

\* C22: whenever open_new_tab reports success, the tab it navigated and
\* recorded as most recent did not exist before the call and is not the
\* tab that was active before it: the keyboard shortcut's result is used
\* only when the shortcut produced a new tab.
C22_FreshTab == [][C22_FreshTabStep]_vars

TabAffecting == {"navigate", "open_new_tab", "switch_tab", "reload_page"}

C23_ActedTabFirstStep ==
  \A tool \in TabAffecting :
    Executes(tool) /\ Succeeds /\ run'.page # None =>
      /\ recentTabOrder' # <<>>
      /\ recentTabOrder'[1] = run'.page

\* C23: after each successful navigate, open_new_tab, switch_tab and
\* reload_page the tab the operation acted on is the first entry of the
\* recency list.
C23_ActedTabFirst == [][C23_ActedTabFirstStep]_vars

NeedsActivePage ==
  {"reload_page", "go_back", "go_forward", "get_page_content", "get_html",
   "search", "fill", "select", "hover", "click"}

NoneActive == getActivePage(World).page = None

C24_FailFastStep ==
  /\ \A tool \in NeedsActivePage :
       Executes(tool) /\ NoneActive =>
         /\ run'.out.kind = "result"
         /\ run'.out.isError
         /\ run'.out.text = "No active page"
         /\ run'.page = None
         /\ UNCHANGED <<browserVars, recentTabOrder>>
  /\ \A tool \in {"navigate", "open_new_tab"} :
       Executes(tool) /\ NoneActive /\ Succeeds =>
         /\ Len(contexts') = Len(contexts) + 1
         /\ contexts'[Len(contexts')] = <<nextPage>>
         /\ run'.page = nextPage

\* C24: when getActivePage yields none, reload_page, go_back, go_forward,
\* get_page_content, get_html, search, fill, select, hover and click each
\* return the "no active page" failure at once, creating no tab and
\* leaving the browser and the recency list as they were; navigate and
\* open_new_tab, when they succeed then, have made a new context with a
\* new tab in it.
C24_FailFast == [][C24_FailFastStep]_vars

\* C24 witness: click failed for want of an active page while the recency
\* list still held a tab that has been closed.
C24_Witness ==
  /\ run.tool = "click"
  /\ run.out.text = "No active page"
  /\ recentTabOrder # <<>>
  /\ OpenNow = {}

\* a step in which a request was answered, whatever it asked for
Answers == response = NoResponse /\ response' # NoResponse

OpenThen == {p \in Range(Flatten(contexts')) : ~closed'[p]}

C25_NoTabClosedStep == Answers => OpenNow \subseteq OpenThen

\* C25: no operation of the catalog closes a tab: every tab open before a
\* request is handled is still open when it has been answered.
C25_NoTabClosed == [][C25_NoTabClosedStep]_vars

\* C25 witness: navigate ran with two tabs open and both are still open.
C25_Witness ==
  /\ run.tool = "navigate"
  /\ run.out.kind = "result"
  /\ Cardinality(OpenNow) = 2
  /\ nextPage = 3

\* C26: every tools/call request gets a response in the end, and exactly
\* one: once sent, no other response follows for it.  Every executor
\* terminates, each of its loops running to a bound fixed before the loop
\* starts.
C26_EveryCallAnswered ==
  /\ (request # NoRequest) ~> (response # NoResponse)
  /\ [][response # NoResponse => response' = response]_vars

\* C26 witness: a search with the default three attempts is at the last
\* selector of its third pass.
C26_Witness ==
  /\ run.tool = "search"
  /\ run.out.kind = "running"
  /\ run.out.at = "passes"
  /\ run.out.attempt = DefaultRetryAttempts - 1
  /\ run.out.sel = NumSearchSelectors
  /\ response = NoResponse

ContentRan ==
  run.tool = "get_page_content" /\ run.out.kind = "result" /\ ~run.out.isError

\* the trimmed texts of the page's paragraphs
PageTexts == {Trim(engine.e.paras[i]) : i \in 1..Len(engine.e.paras)}

Records == calls' = calls + 1

\* the entries of the list other than the tab recorded, in their order
Others == SelectSeq(recentTabOrder, LAMBDA p : p # lastRecorded')

Dropped == Range(recentTabOrder) \ Range(recentTabOrder')

C28_OthersKeepOrderStep ==
  Records =>
    LET rest == Tail(recentTabOrder')
    IN  /\ rest = SubSeq(Others, 1, Len(rest))
        /\ IF lastRecorded' \in Range(recentTabOrder) THEN Dropped = {}
           ELSE IF Len(recentTabOrder) = RecentCapacity
           THEN Dropped = {recentTabOrder[RecentCapacity]}
           ELSE Dropped = {}

\* C28: updateRecentTabOrder keeps the other entries in their order behind
\* the tab recorded; recording a tab that is not in a full list drops the
\* last entry and no other, recording a tab that is in the list, or into a
\* list that is not full, drops none.
C28_OthersKeepOrder == [][C28_OthersKeepOrderStep]_vars

\* C28 witness: an eleventh tab was recorded into the full list of the ten
\* before it, and the first of them is gone.
C28_Witness ==
  /\ calls = 11
  /\ lastRecorded = 11
  /\ Len(recentTabOrder) = RecentCapacity
  /\ recentTabOrder[RecentCapacity] = 2

\* the entry of the recency list getActivePage stops at, 0 when every entry
\* is closed or blank
FoundInList == FirstUsable(World, recentTabOrder)

\* get_html does nothing to the list but call getActivePage, and acts on
\* the page that call returns
C29_ListOnlyOnFallbackStep ==
  Executes("get_html") =>
    /\ FoundInList # 0 => /\ run'.page = recentTabOrder[FoundInList]
                          /\ recentTabOrder' = recentTabOrder
    /\ run'.page = None => recentTabOrder' = recentTabOrder
    /\ recentTabOrder' # recentTabOrder =>
         /\ FoundInList = 0
         /\ run'.page # None
         /\ recentTabOrder' = updateRecentTabOrder(recentTabOrder, run'.page)

\* C29: getActivePage leaves the recency list as it is when it returns the
\* first open, non-blank entry of the list, whatever closed or blank
\* entries stand ahead of it, and when it returns none; when it changes the
\* list it has found no such entry, and the change is the recording of the
\* page it returns.
C29_ListOnlyOnFallback == [][C29_ListOnlyOnFallbackStep]_vars

\* C29 witness: get_html ran on an open blank page that no entry of the
\* list preceded but a closed one, and that page is now first.
C29_Witness ==
  /\ run.tool = "get_html"
  /\ run.page # None
  /\ url[run.page] = "about:blank"
  /\ Len(recentTabOrder) = 2
  /\ recentTabOrder[1] = run.page
  /\ closed[recentTabOrder[2]]

Reported == SearchRan /\ run.out.report # <<>>

\* where the last pass over the selector list begins in the trace
LastPassAt == CHOOSE i \in At({"pass"}) : \A j \in At({"pass"}) : j <= i

\* the selectors tried in pass p, each leaving an error or a value read
\* back after the pass began
TriedIn(p, passAt) ==
  {run.out.errors[i].sel :
     i \in {j \in DOMAIN run.out.errors : run.out.errors[j].attempt = p}}
  \cup {run.out.trace[i].sel : i \in {j \in At({"read"}) : j > passAt}}

\* C30: the selector a search reports as used is, in the last pass it made,
\* the first of the list whose element was visible and enabled and read
\* back the search text; in that pass exactly the selectors up to it were
\* tried, and no pass followed.
C30_UsedSelector ==
  Reported =>
    LET used == run.out.report[1].used
        p    == run.out.trace[LastPassAt].sel
    IN  /\ used \in 1..NumSearchSelectors
        /\ InputAt(engine.e.search, p, used) = engine.a.searchText
        /\ \A k \in 1..(used - 1) :
             InputAt(engine.e.search, p, k) # engine.a.searchText
        /\ TriedIn(p, LastPassAt) = 1..used
        /\ PassesRun = 0..p
        /\ Cardinality(At({"pass"})) = p + 1
        /\ \A i \in DOMAIN run.out.errors : run.out.errors[i].attempt <= p

\* C30 witness: the last selector verified in the second of three passes,
\* after the first selector's element had the wrong text in the first pass
\* and was not interactable in the second.
C30_Witness ==
  /\ Reported
  /\ run.out.report[1].used = NumSearchSelectors
  /\ RetryAttemptsOf(engine.a) = DefaultRetryAttempts
  /\ PassesRun = {0, 1}
  /\ InputAt(engine.e.search, 0, 1) = "cat"
  /\ InputAt(engine.e.search, 1, 1) = "blocked"
  /\ Len(run.out.errors) = 2 * NumSearchSelectors - 1

\* a traversal call of the history operation that ran threw
TraversalThrew == HistoryRan /\ run.out.threw

\* C31: in go_back and go_forward a traversal call that throws is the last
\* one made and does not fail the request; the step count reported is the
\* number of traversal calls that returned, a traversal that left the url
\* unchanged among them, and with none the result is the non-error
\* "Unable to navigate".
C31_ThrowEndsIteration ==
  HistoryRan =>
    /\ run.out.threw =>
         /\ ~run.out.isError
         /\ engine.e.failAt = Traversals + 1
    /\ ~run.out.isError =>
         /\ Traversals = 0 <=> run.out.text = "Unable to navigate"
         /\ Traversals > 0 => run.out.stepsTaken = Traversals
         /\ engine.e.failAt = 0 \/ engine.e.failAt > Traversals

\* C31 witness: the second traversal call threw after the first had
\* returned, and one step is reported without error.
C31_Witness ==
  /\ TraversalThrew
  /\ ~run.out.isError
  /\ engine.e.failAt = 2
  /\ run.out.stepsTaken = 1

\* the element Math.random drew
Drawn == engine.e.els[engine.e.rnd + 1]

\* waitFor on the drawn element throws, or it is visible and enabled and the
\* click on it throws
DrawnThrows == ~Drawn.visible \/ (Drawn.enabled /\ ~Drawn.hit)

\* the drawn element is there but not enabled, which starts the scan
DrawnNotClickable == Drawn.visible /\ ~Drawn.enabled

\* the candidates of the scan on which the click goes through
Landing == {i \in Clickable : engine.e.els[i + 1].hit}

\* C32: in a click with several matches and no index, when waiting for or
\* clicking the drawn element throws, element 0 is clicked and reported as
\* the fallback, and when that throws too the call fails quoting both
\* errors; in the scan that follows a drawn element that is not clickable,
\* a candidate whose click throws is passed over for the next one.
C32_ClickFallbacks ==
  RandomAmongSeveral =>
    /\ DrawnThrows =>
         IF ClickOk(engine.e.els[1])
         THEN /\ ~run.out.isError
              /\ run.out.clicks = <<0>>
              /\ run.out.index = 0
              /\ run.out.how = "fallback"
         ELSE /\ run.out.isError
              /\ run.out.clicks = <<>>
              /\ run.out.quoted = <<"targetError", "fallbackError">>
    /\ DrawnNotClickable =>
         IF Landing = {}
         THEN run.out.isError /\ run.out.clicks = <<>>
         ELSE /\ ~run.out.isError
              /\ run.out.how = "fallback"
              /\ \E i \in Landing : /\ run.out.clicks = <<i>>
                                    /\ \A j \in Landing : i <= j

\* C32 witness: the drawn element was disabled, the click on element 0
\* threw in the scan, and element 2 was clicked.
C32_Witness ==
  /\ RandomAmongSeveral
  /\ DrawnNotClickable
  /\ 0 \in Clickable \ Landing
  /\ run.out.clicks = <<2>>
  /\ run.out.how = "fallback"

\* the browser and the list as the step leaves them
WorldThen ==
  [contexts |-> contexts', url |-> url', closed |-> closed',
   nextPage |-> nextPage', order |-> recentTabOrder']

C33_NextResolvesSwitchedStep ==
  /\ Executes("switch_tab") /\ Succeeds /\ run'.page # None =>
       getActivePage(WorldThen).page = run'.page
  /\ Executes("open_new_tab") /\ Succeeds /\ run'.page \notin Existing =>
       getActivePage(WorldThen).page = run'.page

\* C33: right after a successful switch_tab to a tab, or a successful
\* open_new_tab that created one, that tab is the one getActivePage
\* resolves for the next operation, also when its url is about:blank.
C33_NextResolvesSwitched == [][C33_NextResolvesSwitchedStep]_vars

\* C34: however the handlers of concurrent requests interleave at their
\* automation calls, the recency list never holds a tab twice and never
\* more than 10 entries.
C34_ListSoundWhenInterleaved ==
  /\ NoDuplicates(recentTabOrder)
  /\ Len(recentTabOrder) <= RecentCapacity

\* C34 witness: a switch_tab recorded the eleventh tab into the full list
\* while another switch_tab to the same tab, whose bringToFront was made
\* before that, is still suspended.
C34_Witness ==
  \E p, q \in Procs :
    /\ run[p].tool = "switch_tab" /\ run[q].tool = "switch_tab"
    /\ run[p].out.kind = "result" /\ ~run[p].out.isError
    /\ run[q].out.kind = "running"
    /\ run[p].page = ConcTabs /\ run[q].page = ConcTabs
    /\ Len(run[q].out.acted) = 1
    /\ run[q].out.active # ConcTabs
    /\ recentTabOrder[1] = ConcTabs
    /\ Len(recentTabOrder) = RecentCapacity

\* C35: an executor that needs the active page resolves it once, before
\* its first automation call, and makes every automation call on that tab,
\* whatever concurrent requests do to the recency list meanwhile.
C35_ActsOnResolvedTabStep ==
  \A p \in Procs :
    /\ (run[p] = NoRun /\ run'[p].tool = "get_html"
          /\ run'[p].out.kind = "running")
         => /\ run'[p].page = getActivePage(World).page
            /\ run'[p].out.acted = <<>>
    /\ (run[p].tool = "get_html" /\ run[p].out.kind = "running"
          /\ run'[p].out.kind = "running")
         => /\ run'[p].page = run[p].page
            /\ \A i \in 1..Len(run'[p].out.acted) :
                 run'[p].out.acted[i] = run[p].page

C35_ActsOnResolvedTab == [][C35_ActsOnResolvedTabStep]_vars

\* C35 witness: a suspended get_html made its second call on its tab at a
\* moment when another tab, recorded by a concurrent request, was the
\* active one.
C35_Witness ==
  \E p \in Procs :
    /\ run[p].tool = "get_html"
    /\ run[p].out.kind = "running"
    /\ run[p].out.acted = <<run[p].page, run[p].page>>
    /\ run[p].out.active # run[p].page
    /\ recentTabOrder # <<>>
    /\ recentTabOrder[1] = run[p].out.active

\* the selectors whose element the search text was typed into
TypedInto == {run.out.trace[i].sel : i \in At({"read"})}

\* C36: in one execution of search the search text is typed into at most
\* one input element; no element other than the finally used one is typed
\* into.
C36_TypedIntoOneInput ==
  SearchRan => Cardinality(TypedInto) <= 1

\* the executor named after a tool, called as handleToolCall calls it
ExecutorOf(name, w, a, e) ==
  CASE name = "navigate"         -> callNavigate(w, a, e)
    [] name = "open_new_tab"     -> callOpenNewTab(w, a, e)
    [] name = "reload_page"      -> callReloadPage(w, a, e)
    [] name = "go_back"          -> callGoBack(w, a, e)
    [] name = "go_forward"       -> callGoForward(w, a, e)
    [] name = "switch_tab"       -> callSwitchTab(w, a, e)
    [] name = "search"           -> callSearch(w, a, e)
    [] name = "get_page_content" -> callGetPageContent(w, a, e)
    [] name = "get_html"         -> callGetHtml(w, a, e)
    [] name = "fill"             -> callFill(w, a, e)
    [] name = "select"           -> callSelect(w, a, e)
    [] name = "hover"            -> callHover(w, a, e)
    [] name = "click"            -> callClick(w, [a EXCEPT !.nth = <<>>], e)

C37_DispatchedIffListedStep ==
  (response = NoResponse /\ response' # NoResponse
     /\ request'.method = "tools/call")
  => IF request'.name \in Range(toolsList)
     THEN LET ran == ExecutorOf(request'.name, World, request'.a, engine.e)
          IN  /\ run'.out = ran.out
              /\ run'.page = ran.page
              /\ WorldThen = ran.w
     ELSE /\ "error" \in DOMAIN response'.body
          /\ response'.body.error.code = -32603
          /\ run'.page = None
          /\ UNCHANGED <<browserVars, recentTabOrder>>

\* C37: a tools/call name in the catalog of tools/list runs the executor
\* of that name, and a name not in the catalog is answered with error
\* -32603 and leaves the browser and the recency list as they were.
C37_DispatchedIffListed == [][C37_DispatchedIffListedStep]_vars

\* C37 witness: after a listed name's executor recorded a tab, a request
\* naming the unexposed screenshot helper was answered with -32603.
C37_Witness ==
  /\ Answered
  /\ request.method = "tools/call"
  /\ request.name = "take_screenshot"
  /\ response.body.error.code = -32603
  /\ recentTabOrder # <<>>

SessionRank(session) ==
  CASE session = "null"          -> 0
    [] session = "uninitialized" -> 1
    [] session = "initialized"   -> 2

C38_SessionMonotonicStep ==
  /\ SessionRank(httpOnlySession') >= SessionRank(httpOnlySession)
  /\ (response = NoResponse /\ response' # NoResponse) =>
       /\ request'.method = "initialize" => httpOnlySession' # "null"
       /\ (request'.method = "notifications/initialized"
             /\ httpOnlySession # "null") => httpOnlySession' = "initialized"

\* C38: the session never goes from initialized back to uninitialized and
\* an existing session is never replaced or dropped, whatever requests
\* arrive; initialize leaves a session behind and notifications/initialized
\* on an existing session makes it initialized.
C38_SessionMonotonic == [][C38_SessionMonotonicStep]_vars

\* C38 witness: initialize was answered in a session that is initialized.
C38_Witness ==
  /\ Answered
  /\ request.method = "initialize"
  /\ httpOnlySession = "initialized"

InitBrowserRan == run.tool = "initBrowser"

ChromeCalls ==
  {i \in DOMAIN run.out.trace : run.out.trace[i].name = "chrome"}

\* C39: initBrowser for a type other than chrome whose initializer fails
\* calls the Chrome initializer exactly once and settles as that call
\* does; a failure of the Chrome initializer is thrown with no further
\* attempt; waitForBrowserReady polls at most maxAttempts times and has
\* polled maxAttempts times when it returns false.
C39_FallbackOnce ==
  /\ InitBrowserRan =>
       LET t == run.out.trace
       IN  /\ Cardinality(ChromeCalls) <= 1
           /\ engine.browserType = "chrome" =>
                /\ Len(t) = 1
                /\ run.out.kind = "throw" <=> ~t[1].ok
           /\ engine.browserType \in {"firefox", "webkit"} =>
                /\ t[1].name = engine.browserType
                /\ IF t[1].ok
                   THEN Len(t) = 1 /\ run.out.kind = "browser"
                   ELSE /\ Len(t) = 2
                        /\ t[2].name = "chrome"
                        /\ run.out.kind = "throw" <=> ~t[2].ok
           /\ engine.browserType = "opera" =>
                /\ Len(t) = 1
                /\ t[1].name = "chrome"
                /\ run.out.kind = "throw" <=> ~t[1].ok
  /\ run.tool = "waitForBrowserReady" =>
       /\ run.out.polled <= engine.maxAttempts
       /\ ~run.out.ready => run.out.polled = engine.maxAttempts

\* C39 witness: Firefox did not get ready within its five polls, Chrome was
\* launched in its place and its failure to connect was thrown.
C39_Witness ==
  /\ InitBrowserRan
  /\ engine.browserType = "firefox"
  /\ Len(run.out.trace) = 2
  /\ run.out.trace[1].polled = ReadyAttempts
  /\ run.out.trace[2].polled > ReadyAttempts
  /\ ~run.out.trace[2].ok
  /\ run.out.kind = "throw"
====
